---------------------------- MODULE Spec2Model ----------------------------
(***************************************************************************)
(* log_tasmota: regime classification and notification de-duplication of   *)
(* a power-metering plug (src/main.py).                                    *)
(*                                                                         *)
(* Time is counted in whole seconds.  datetime.min is DatetimeMin; every   *)
(* real timestamp (a sample's Time, datetime.now()) lies far after it, as  *)
(* the year of the wall clock lies far after year 1.  Power is in W and    *)
(* the cumulative energy ("Total") in whole units.                         *)
(***************************************************************************)
EXTENDS Integers, Sequences, FiniteSets, TLC

VARIABLES
    series,     \* the rows of the device's csv log, oldest first
    doc,        \* the persisted json document (config and stats)
    pc,         \* "row": the newest row awaits check_status; "evaluated": it was run
    polled,     \* rows appended by polls since the initial state
    regime,     \* classification made by the last check_status ("None" before any)
    outbox,     \* the messages the last check_status handed to the transport
    crashed,    \* the last check_status raised before it saved
    feed,       \* rows the device will report next (scripted scenario), else << >>
    nSent,      \* per kind, the number of evaluations that sent a message of it
    onDelivered,    \* an On notification was acknowledged by every target
    entrySinceOn,   \* off.time or done.time was written since that delivery
    anyFailed,      \* some delivery of this run was not acknowledged
    mock,           \* the document of the debug replays (*.mock_run.json)
    loop,           \* main(): the position of the outer loop over cycles and devices
    stored,         \* the json file of the document, as written text
    mem,            \* Config.config, the document in memory
    csv             \* the csv log as a file that prune_file rewrites

vars == <<series, doc, pc, polled, regime, outbox, crashed, feed, nSent, onDelivered, entrySinceOn, anyFailed, mock, loop, stored, mem, csv>>

\* the live cycle of one device
device == <<series, doc, pc, polled, regime, outbox, crashed, feed, nSent, onDelivered, entrySinceOn, anyFailed>>

\* the state outside the live cycle of the device
aside == <<mock, loop, stored, mem, csv>>

-----------------------------------------------------------------------------
(* Bounds of the model *)

MaxPolls == 2           \* rows polled after the initial history
PollDelay == 1          \* seconds from the latest sample's timestamp to datetime.now()
StartTime == 100000000  \* time of the first sample ever logged
TunedDataWindow == 15   \* min_data_window (seconds) of the user-tuned documents
MaxCounted == 2         \* nSent counts up to here ("MaxCounted or more")

(* Program constants *)

DatetimeMin == 0                \* datetime.datetime.min
YearOneEnd == 31536000          \* first second after year 1 (x.year == 1 iff x < YearOneEnd)
Interval == 10                  \* main(): interval = 10
DefaultOffPower == 0
DefaultMaxIdlePower == 5
DefaultMinRuntimeMinutes == 20
DefaultMinDataWindowSeconds == 54   \* min_data_window_minutes 0.9
ReRemindFloor == 300            \* max(300, fib(counter))
Absent == -1                    \* key "re_remind_counter" not in the document

Targets == <<"server-mail", "todo", "jo_private">>
TargetSet == {Targets[i] : i \in 1..Len(Targets)}
Records == {"on", "running", "done", "off"}

Max2(a, b) == IF a >= b THEN a ELSE b
SetMax(S) == CHOOSE x \in S : \A y \in S : y <= x
SetMin(S) == CHOOSE x \in S : \A y \in S : x <= y

-----------------------------------------------------------------------------
(* fib: Binet's formula truncated by int().  In double precision the      *)
(* truncation returns the exact Fibonacci number F(n), F(0) = 0, for every *)
(* n < 72; the model keeps counters far below that.                        *)
RECURSIVE FibIter(_, _, _)
FibIter(n, a, b) == IF n = 0 THEN a ELSE FibIter(n - 1, b, a + b)

fib(n) == FibIter(n, 0, 1)

-----------------------------------------------------------------------------
(* Config.load_config: the defaults merged into the document *)

DefaultNotification ==
    [r \in Records |->
        CASE r = "on"      -> [t \in TargetSet |-> IF t = "server-mail" THEN 1 ELSE 0]
          [] r = "running" -> [t \in TargetSet |-> 0]
          [] r = "done"    -> [t \in TargetSet |->
                                 CASE t = "server-mail" -> 1
                                   [] t = "todo" -> 1
                                   [] t = "jo_private" -> 2]
          [] r = "off"     -> [t \in TargetSet |-> IF t = "server-mail" THEN 1 ELSE 0]]

DefaultDoc ==
    [off_power |-> DefaultOffPower,
     max_idle_power |-> DefaultMaxIdlePower,
     min_runtime |-> DefaultMinRuntimeMinutes * 60,
     min_data_window |-> DefaultMinDataWindowSeconds,
     re_remind |-> FALSE,
     re_remind_counter |-> Absent,
     stats |-> [r \in Records |->
                  [time |-> DatetimeMin, last_sent |-> DatetimeMin, power_total |-> 0,
                   notification |-> DefaultNotification[r]]]]

-----------------------------------------------------------------------------
(* check_status, lines 823-841: the sample window *)

Times(rows) == {rows[i].time : i \in 1..Len(rows)}
Suffix(rows, k) == SubSeq(rows, Len(rows) - k + 1, Len(rows))

Span(rows) == SetMax(Times(rows)) - SetMin(Times(rows))

\* "delta >= min_data_window" instead of "delta > min_data_window"
LeavesAtSpan(rows, k, mdw, interval) ==
    (k - 1) * interval > mdw /\ Span(Suffix(rows, k)) >= mdw

\* the loop reads backward and leaves at the first row (the k-th from the end,
\* count = k - 1) with count > min_data_window / interval and delta > min_data_window
Leaves(rows, k, mdw, interval) ==
    (k - 1) * interval > mdw /\ Span(Suffix(rows, k)) > mdw

RECURSIVE ReadBack(_, _, _, _)
ReadBack(rows, k, mdw, interval) ==
    IF k > Len(rows) THEN [len |-> Len(rows), left |-> FALSE]
    ELSE IF Leaves(rows, k, mdw, interval) THEN [len |-> k, left |-> TRUE]
    ELSE ReadBack(rows, k + 1, mdw, interval)

WindowLen(rows, mdw, interval) == ReadBack(rows, 1, mdw, interval).len

Window(rows, mdw, interval) == Suffix(rows, WindowLen(rows, mdw, interval))

\* "Total" of the last row read before the loop left (the row that makes the
\* loop leave is in power_list but its Total is not taken)
LastTotalPower(rows, mdw, interval) ==
    LET w == Window(rows, mdw, interval)
    IN  IF ReadBack(rows, 1, mdw, interval).left THEN w[2].total ELSE w[1].total

PowerList(w) == [i \in 1..Len(w) |-> w[i].power]

\* twice statistics.median (the mean of the two middle values of an even list)
Median2(p) ==
    LET s == SortSeq(p, LAMBDA a, b : a < b)
        n == Len(s)
    IN  IF n % 2 = 1 THEN 2 * s[(n + 1) \div 2] ELSE s[n \div 2] + s[n \div 2 + 1]

-----------------------------------------------------------------------------
(* check_status, lines 850-865: the classification of a window *)

IsStarting(p, c) ==
    /\ \A i \in 1..(Len(p) - 1) : p[i] <= c.off_power
    /\ p[Len(p)] > c.off_power

\* "every sample above max_idle_power" instead of "at least"
IsRunningStrict(p, c) == \A i \in 1..Len(p) : p[i] > c.max_idle_power

IsRunning(p, c) == \A i \in 1..Len(p) : p[i] >= c.max_idle_power

\* the Running rule tried before the Starting rule
ClassifyRunningFirst(p, c) ==
    IF IsRunning(p, c) THEN "Running"
    ELSE IF IsStarting(p, c) THEN "Starting"
    ELSE IF Median2(p) <= 2 * c.off_power THEN "Off"
    ELSE IF 2 * c.off_power <= Median2(p) /\ Median2(p) <= 2 * c.max_idle_power THEN "Done"
    ELSE "Ambiguous"

\* the last rule taken as "else": no window falls through
ClassifyNoFallThrough(p, c) ==
    IF IsStarting(p, c) THEN "Starting"
    ELSE IF IsRunning(p, c) THEN "Running"
    ELSE IF Median2(p) <= 2 * c.off_power THEN "Off"
    ELSE "Done"

Classify(p, c) ==
    IF IsStarting(p, c) THEN "Starting"
    ELSE IF IsRunning(p, c) THEN "Running"
    ELSE IF Median2(p) <= 2 * c.off_power THEN "Off"
    ELSE IF 2 * c.off_power <= Median2(p) /\ Median2(p) <= 2 * c.max_idle_power THEN "Done"
    ELSE "Ambiguous"

-----------------------------------------------------------------------------
(* The notification fan-out of print_on, print_off and print_done.  A message *)
(* is [kind, target, muted, ok, reminder]; acks[t] is the "ok" of target t's  *)
(* delivery acknowledgment.                                                 *)

Level(c, rec, t) == c.stats[rec].notification[t]

\* print_on / print_off test their own record's level for sending and the
\* "done" record's level for disable_notification
Muted(c, kind, t) == Level(c, "done", t) = 1

\* the "todo" target of print_done is skipped when the text holds "Erinnerung"
Attempted(c, kind, t, reminder) ==
    /\ Level(c, kind, t) > 0
    /\ ~(kind = "done" /\ t = "todo" /\ reminder)

FanOut(c, kind, acks, reminder, suppress) ==
    IF suppress THEN << >>
    ELSE LET to == SelectSeq(Targets, LAMBDA t : Attempted(c, kind, t, reminder))
         IN  [i \in 1..Len(to) |->
                [kind |-> kind, target |-> to[i], muted |-> Muted(c, kind, to[i]),
                 ok |-> acks[to[i]], reminder |-> reminder]]

\* result_ok combined with "or": one acknowledged delivery counts as success
ResultOkAny(out) == out = << >> \/ \E i \in 1..Len(out) : out[i].ok

ResultOk(out) == \A i \in 1..Len(out) : out[i].ok

IsYearOne(t) == t < YearOneEnd

SetStat(c, rec, field, v) == [c EXCEPT !.stats[rec][field] = v]

Returned(c, ret, out, err) == [c |-> c, ret |-> ret, out |-> out, err |-> err]

-----------------------------------------------------------------------------
(* print_on, lines 747-804 *)

OnAlreadySent(c, t) == c.stats["on"].last_sent >= t

\* the guard of lines 760-763 left out
OnNoNewRunDropped(c) == FALSE

OnNoNewRun(c) ==
    Max2(c.stats["off"].time, c.stats["done"].time) <= c.stats["on"].last_sent

print_on(c, t, total, acks, now, suppress) ==
    IF OnAlreadySent(c, t) THEN Returned(c, FALSE, << >>, FALSE)
    ELSE IF OnNoNewRun(c) THEN Returned(c, FALSE, << >>, FALSE)
    ELSE LET c1 == SetStat(SetStat(c, "on", "time", t), "on", "power_total", total)
             out == FanOut(c1, "on", acks, FALSE, suppress)
             c2 == IF ResultOk(out) THEN SetStat(c1, "on", "last_sent", now) ELSE c1
         IN  Returned([c2 EXCEPT !.re_remind_counter = 0], TRUE, out, FALSE)

-----------------------------------------------------------------------------
(* print_off, lines 678-742 *)

LastOnOrDone(c) == Max2(c.stats["on"].time, c.stats["done"].time)

\* the min_runtime guard of lines 686-689 left out
OffTooShortDropped(c, t) == FALSE

OffTooShort(c, t) == t - LastOnOrDone(c) < c.min_runtime

OffInDataWindow(c, t) == t - c.stats["running"].time < c.min_data_window

\* the guard of lines 695-697 left out
OffNoNewRunDropped(c) == FALSE

OffNoNewRun(c) == LastOnOrDone(c) <= c.stats["off"].last_sent

print_off(c, t, total, acks, now, suppress) ==
    IF OffTooShort(c, t) THEN Returned(c, FALSE, << >>, FALSE)
    ELSE IF OffInDataWindow(c, t) THEN Returned(c, FALSE, << >>, FALSE)
    ELSE IF OffNoNewRun(c) THEN Returned(c, FALSE, << >>, FALSE)
    ELSE LET c1 == SetStat(SetStat(c, "off", "time", t), "off", "power_total", total)
             sending == \/ IsYearOne(c1.stats["off"].last_sent)
                        \/ c1.stats["off"].last_sent < c1.stats["off"].time
         IN  IF ~sending THEN Returned(c1, FALSE, << >>, FALSE)
             ELSE LET out == FanOut(c1, "off", acks, FALSE, suppress)
                      c2 == IF ResultOk(out) THEN SetStat(c1, "off", "last_sent", now)
                            ELSE c1
                  IN  Returned([c2 EXCEPT !.re_remind_counter = 0], TRUE, out, FALSE)

-----------------------------------------------------------------------------
(* print_done, lines 583-673 *)

LastOnOrOff(c) == Max2(c.stats["on"].time, c.stats["off"].time)

DoneTooShort(c, t) == t - LastOnOrOff(c) < c.min_runtime

DoneInDataWindow(c, t) == t - c.stats["running"].time < c.min_data_window

\* the wait without the Fibonacci growth
ReRemindWaitFlat(n) == ReRemindFloor

\* n_th_fib = max(300, fib(config.re_remind_counter))
ReRemindWait(n) == Max2(ReRemindFloor, fib(n))

\* lines 602-608; reads re_remind_counter only when re_remind is set
ReRemindNow(c, t) ==
    /\ c.re_remind
    /\ t - c.stats["done"].last_sent >= ReRemindWait(c.re_remind_counter)

DoneAlreadySent(c) == LastOnOrOff(c) <= c.stats["done"].last_sent

\* time and power_total recorded by every Done message, reminders included
DoneEntryAlways(c, t, total) ==
    SetStat(SetStat(c, "done", "time", t), "done", "power_total", total)

\* the first Done of an episode records time and power_total (lines 617-619)
DoneEntry(c, t, total) ==
    IF c.re_remind_counter = 0
    THEN SetStat(SetStat(c, "done", "time", t), "done", "power_total", total)
    ELSE c

\* last_sent advanced without counting the message
DoneSentUncounted(c, now) == SetStat(c, "done", "last_sent", now)

\* lines 669-671
DoneSent(c, now) ==
    [SetStat(c, "done", "last_sent", now) EXCEPT !.re_remind_counter = c.re_remind_counter + 1]

print_done(c, t, total, acks, now, suppress) ==
    IF DoneTooShort(c, t) THEN Returned(c, FALSE, << >>, FALSE)
    ELSE IF DoneInDataWindow(c, t) THEN Returned(c, FALSE, << >>, FALSE)
    ELSE IF c.re_remind /\ c.re_remind_counter = Absent
         THEN Returned(c, FALSE, << >>, TRUE)       \* KeyError at line 604
    ELSE IF DoneAlreadySent(c) /\ ~ReRemindNow(c, t) THEN Returned(c, FALSE, << >>, FALSE)
    ELSE IF c.re_remind_counter = Absent
         THEN Returned(c, FALSE, << >>, TRUE)       \* KeyError at line 617
    ELSE LET c1 == DoneEntry(c, t, total)
             now_re == ReRemindNow(c, t)
             sending == \/ IsYearOne(c1.stats["done"].last_sent)
                        \/ c1.stats["done"].last_sent < c1.stats["done"].time
                        \/ now_re
         IN  IF ~sending THEN Returned(c1, FALSE, << >>, FALSE)
             ELSE LET reminder == now_re /\ c1.re_remind_counter > 0
                      out == FanOut(c1, "done", acks, reminder, suppress)
                      c2 == IF ResultOk(out) THEN DoneSent(c1, now) ELSE c1
                  IN  Returned(c2, TRUE, out, FALSE)

-----------------------------------------------------------------------------
(* check_status, lines 808-872, on the loaded document c and the rows of the *)
(* csv; the result's c is the document save_config writes.  An exception     *)
(* (err) leaves check_status before save_config: the stored document stays.   *)

\* the fallback of lines 854-856 left out
OnTimeMissedNever(c) == FALSE

OnTimeMissed(c) ==
    /\ c.stats["on"].time < c.stats["done"].time
    /\ c.stats["on"].time < c.stats["off"].time

Evaluated(c, reg, r) ==
    [c |-> IF r.err THEN c ELSE r.c, regime |-> reg,
     out |-> IF r.err THEN << >> ELSE r.out, ret |-> r.ret /\ ~r.err, err |-> r.err]

check_status(rows, c, acks, now, suppress) ==
    IF rows = << >>
    THEN [c |-> c, regime |-> "None", out |-> << >>, ret |-> FALSE, err |-> TRUE]  \* min([]) raises
    ELSE
    LET w == Window(rows, c.min_data_window, Interval)
        time_latest == SetMax(Times(w))
        time_earliest == SetMin(Times(w))
        last_total_power == LastTotalPower(rows, c.min_data_window, Interval)
        reg == Classify(PowerList(w), c)
    IN  CASE reg = "Starting" ->
               Evaluated(c, reg, print_on(c, time_latest, rows[Len(rows)].total,
                                          acks, now, suppress))
          [] reg = "Running" ->
               LET c1 == [SetStat(c, "running", "time", time_latest)
                            EXCEPT !.re_remind_counter = 0]
               IN  IF OnTimeMissed(c1)
                   THEN Evaluated(c, reg, print_on(c1, time_latest, rows[Len(rows)].total,
                                                   acks, now, suppress))
                   ELSE Evaluated(c, reg, Returned(c1, FALSE, << >>, FALSE))
          [] reg = "Off" ->
               Evaluated(c, reg, print_off(c, time_earliest, last_total_power,
                                           acks, now, suppress))
          [] reg = "Done" ->
               Evaluated(c, reg, print_done(c, time_earliest, last_total_power,
                                            acks, now, suppress))
          [] OTHER -> Evaluated(c, reg, Returned(c, FALSE, << >>, FALSE))

-----------------------------------------------------------------------------
(* The device and its log.  A poll (log_to_csv) appends one row; the gap    *)
(* to the previous row is the polling interval, or longer when polls were   *)
(* missed.  The device's energy counter grows while it draws running power.  *)

Powers == {0, 3, 800}
Gaps == {Interval, 300, 1200}

Energy(p) == IF p > DefaultMaxIdlePower THEN 1 ELSE 0

NextRow(rows, gap, p) ==
    IF rows = << >>
    THEN [time |-> StartTime, power |-> p, total |-> Energy(p)]
    ELSE [time |-> rows[Len(rows)].time + gap, power |-> p,
          total |-> rows[Len(rows)].total + Energy(p)]

\* log_to_csv, lines 534-542
log_to_csv(rows, gap, p) == Append(rows, NextRow(rows, gap, p))

AllOk == [t \in TargetSet |-> TRUE]

\* the acknowledgments of one evaluation: every delivery succeeds, or those
\* of one target fail (a target never attempted does not answer)
FailAt(bad) == [t \in TargetSet |-> t # bad]
Acks(out) == {AllOk} \cup {FailAt(out[i].target) : i \in 1..Len(out)}

\* a wall clock that runs backward from twice the time of the first sample
NowBackward(rows) == 2 * StartTime - rows[Len(rows)].time

\* datetime.now() of the evaluation that follows the poll of the last row: the
\* clocks of the device and of the logger agree
Now(rows) == rows[Len(rows)].time + PollDelay

-----------------------------------------------------------------------------
(* Documents found at the start.  Besides the fresh default document these  *)
(* are the documents earlier live cycles leave behind: each is computed by   *)
(* running check_status after every row of a device history, deliveries      *)
(* acknowledged, from the fresh document.  The user-tunable fields            *)
(* (min_data_window, re_remind, notification levels) are set by hand.         *)

Kinds(out) == {out[i].kind : i \in 1..Len(out)}

\* the two history flags after an evaluation with result r of document c
OnDeliveredAfter(was, r) == was \/ ("on" \in Kinds(r.out) /\ ResultOk(r.out))

EntrySinceOnAfter(was, c, r) ==
    IF "on" \in Kinds(r.out) /\ ResultOk(r.out) THEN FALSE
    ELSE \/ was
         \/ r.c.stats["off"].time # c.stats["off"].time
         \/ r.c.stats["done"].time # c.stats["done"].time

RECURSIVE Replay(_, _, _)
Replay(past, script, suppress) ==
    IF script = << >> THEN past
    ELSE LET rows1 == log_to_csv(past.rows, script[1][1], script[1][2])
             r == check_status(rows1, past.c, AllOk, Now(rows1), suppress)
         IN  IF r.err THEN [past EXCEPT !.rows = rows1]  \* the process ends at the exception
             ELSE Replay([c |-> r.c, rows |-> rows1,
                          onDelivered |-> OnDeliveredAfter(past.onDelivered, r),
                          entrySinceOn |-> EntrySinceOnAfter(past.entrySinceOn, past.c, r)],
                         Tail(script), suppress)

NoPast(c) == [c |-> c, rows |-> << >>, onDelivered |-> FALSE, entrySinceOn |-> FALSE]

Times3(gap, p) == << <<gap, p>>, <<Interval, p>>, <<Interval, p>> >>

HistoryRun == Times3(Interval, 800)
HistoryDone == HistoryRun \o Times3(Interval, 3) \o << <<Interval, 3>> >>
HistoryOff == HistoryDone \o Times3(1240, 0)
HistoryStarted == HistoryOff \o << <<Interval, 800>> >>
HistoryOn == HistoryOff \o Times3(Interval, 800)
HistoryStopping == HistoryOn \o << <<1200, 0>>, <<Interval, 0>> >>
HistoryFinishing == HistoryOn \o << <<1200, 3>>, <<Interval, 3>> >>

RECURSIVE Idle(_)
Idle(n) == IF n = 0 THEN << >> ELSE <<<<1200, 3>>>> \o Idle(n - 1)

\* a device idling on after its Done message, and one left idle until the
\* 14th Done message of the episode went out
HistoryIdle(gap) == HistoryDone \o << <<gap, 3>>, <<Interval, 3>> >>
HistoryReminded(gap) == HistoryDone \o Idle(39) \o << <<gap, 3>>, <<Interval, 3>> >>

TunedNotification ==
    [r \in Records |->
        CASE r = "on"      -> [t \in TargetSet |-> IF t = "jo_private" THEN 0 ELSE 2]
          [] r = "running" -> [t \in TargetSet |-> 0]
          [] r = "done"    -> [t \in TargetSet |-> IF t = "jo_private" THEN 2 ELSE 1]
          [] r = "off"     -> [t \in TargetSet |-> IF t = "todo" THEN 0 ELSE 1]]

WithNotification(c, n) ==
    [c EXCEPT !.stats = [r \in Records |-> [c.stats[r] EXCEPT !.notification = n[r]]]]

TunedDoc(n) ==
    [WithNotification(DefaultDoc, n)
        EXCEPT !.min_data_window = TunedDataWindow, !.re_remind = TRUE]

NoneSent == [k \in {"on", "off", "done"} |-> 0]

\* no debug replay has run: no *.mock_run.json, which loads as the defaults
NoReplay == mock = DefaultDoc

\* the outer loop and the text of the json file are not looked at
NoLoop == loop = << >>
NoStore == stored = << >> /\ mem = << >>
NoCsv == csv = << >>

Aside == NoReplay /\ NoLoop /\ NoStore /\ NoCsv

InitWith(h, n, rr) ==
    LET past == Replay(NoPast(TunedDoc(n)), h, FALSE)
    IN  /\ series = past.rows
        /\ doc = [past.c EXCEPT !.re_remind = rr]
        /\ pc = IF h = << >> THEN "poll" ELSE "evaluated"
        /\ polled = 0
        /\ regime = "None"
        /\ outbox = << >>
        /\ crashed = FALSE
        /\ feed = << >>
        /\ nSent = NoneSent
        /\ onDelivered = past.onDelivered
        /\ entrySinceOn = past.entrySinceOn
        /\ anyFailed = FALSE
        /\ Aside

\* fresh installs, and devices mid-cycle with re_remind on or switched off
Init ==
    \/ \E rr \in BOOLEAN : InitWith(<< >>, DefaultNotification, rr)
    \/ \E rr \in BOOLEAN : InitWith(HistoryFinishing, DefaultNotification, rr)
    \/ \E n \in {DefaultNotification, TunedNotification} : InitWith(HistoryStopping, n, TRUE)
    \/ \E h \in {HistoryDone, HistoryOff, HistoryStarted, HistoryOn, HistoryIdle(300)} :
            InitWith(h, DefaultNotification, TRUE)

\* a device left idle after its Done message
InitLongIdle ==
    \/ \E gap \in {300, 1200}, rr \in BOOLEAN : InitWith(HistoryIdle(gap), DefaultNotification, rr)
    \/ \E gap \in {300, 1200} : InitWith(HistoryReminded(gap), DefaultNotification, TRUE)

\* a fresh install (the default document) watching a device that is off for
\* ten polls and then draws p W for ten polls, polled every Interval seconds
ScenarioPowers == {6, 800, 2000}

ScenarioFeed(p) ==
    [i \in 1..20 |->
        [time |-> StartTime + Interval * (i - 1),
         power |-> IF i <= 10 THEN 0 ELSE p,
         total |-> IF i <= 10 THEN 0 ELSE i - 10]]

InitScenario ==
    /\ series = << >>
    /\ doc = DefaultDoc
    /\ pc = "poll"
    /\ polled = 0
    /\ regime = "None"
    /\ outbox = << >>
    /\ crashed = FALSE
    /\ \E p \in ScenarioPowers : feed = ScenarioFeed(p)
    /\ nSent = NoneSent
    /\ onDelivered = FALSE
    /\ entrySinceOn = FALSE
    /\ anyFailed = FALSE
    /\ Aside

\* one window of samples and a pair of thresholds, for the classification alone
MaxWindow == 4
ClassifyPowers == {0, 3, 5, 800}
OffPowers == {0, 3}
IdlePowers == {3, 5}

RECURSIVE Windows(_)
Windows(n) ==
    IF n = 0 THEN {<< >>}
    ELSE {Append(w, p) : w \in Windows(n - 1), p \in ClassifyPowers}

RowsOf(w) ==
    [i \in 1..Len(w) |->
        [time |-> StartTime + Interval * (i - 1), power |-> w[i], total |-> 0]]

InitClassify ==
    /\ \E n \in 1..MaxWindow : \E w \in Windows(n) : series = RowsOf(w)
    /\ \E off \in OffPowers, idle \in IdlePowers :
         doc = [DefaultDoc EXCEPT !.off_power = off, !.max_idle_power = idle]
    /\ pc = "row"
    /\ polled = 0
    /\ regime = "None"
    /\ outbox = << >>
    /\ crashed = FALSE
    /\ feed = << >>
    /\ nSent = NoneSent
    /\ onDelivered = FALSE
    /\ entrySinceOn = FALSE
    /\ anyFailed = FALSE
    /\ Aside

-----------------------------------------------------------------------------
(* Actions *)

Counted(n) == IF n >= MaxCounted THEN MaxCounted ELSE n + 1

\* do_once, line 936: a poll of the device appends a row
Poll ==
    /\ feed = << >>
    /\ polled < MaxPolls
    /\ pc # "row"
    /\ \E gap \in Gaps, p \in Powers : series' = log_to_csv(series, gap, p)
    /\ pc' = "row"
    /\ polled' = polled + 1
    /\ UNCHANGED <<doc, regime, outbox, crashed, feed, nSent, onDelivered, entrySinceOn,
                   anyFailed>>
    /\ UNCHANGED aside

\* do_once, line 952: check_status on the live document, save_config included.
\* check_status may be called again on the same rows (as the last two offsets of
\* a replay do)
CheckStatus ==
    /\ pc \in {"row", "evaluated"}
    /\ \E acks \in Acks(check_status(series, doc, AllOk, Now(series), FALSE).out) :
         LET r == check_status(series, doc, acks, Now(series), FALSE)
         IN  /\ doc' = r.c
             /\ regime' = r.regime
             /\ outbox' = r.out
             /\ crashed' = r.err
             /\ nSent' = [k \in DOMAIN nSent |->
                            IF k \in Kinds(r.out) THEN Counted(nSent[k]) ELSE nSent[k]]
             /\ onDelivered' = OnDeliveredAfter(onDelivered, r)
             /\ entrySinceOn' = EntrySinceOnAfter(entrySinceOn, doc, r)
             /\ anyFailed' = (anyFailed \/ ~ResultOk(r.out))
    /\ pc' = "evaluated"
    /\ UNCHANGED <<series, polled, feed>>
    /\ UNCHANGED aside

\* a poll of the scripted device
PollFeed ==
    /\ feed # << >>
    /\ pc # "row"
    /\ series' = Append(series, Head(feed))
    /\ feed' = Tail(feed)
    /\ pc' = "row"
    /\ UNCHANGED <<doc, polled, regime, outbox, crashed, nSent, onDelivered, entrySinceOn,
                   anyFailed>>
    /\ UNCHANGED aside

Next == Poll \/ CheckStatus

Spec == Init /\ [][Next]_vars

SpecLongIdle == InitLongIdle /\ [][Next]_vars

\* a device that ran, idled until its Done message, and then flickered around
\* off_power (0, 3, 0 W: the median window is Off) before it started again:
\* the window of its first running sample holds a sample above off_power, so
\* that tick is not classified Starting
HistoryFlicker(gap) ==
    HistoryDone \o << <<gap, 0>>, <<Interval, 3>>, <<Interval, 0>>,
                     <<Interval, 800>>, <<Interval, 800>> >>

InitFlicker ==
    \E gap \in {300, 1240}, rr \in BOOLEAN, n \in {DefaultNotification, TunedNotification} :
        InitWith(HistoryFlicker(gap), n, rr)

SpecFlicker == InitFlicker /\ [][Next]_vars

NextScenario == PollFeed \/ CheckStatus

SpecScenario == InitScenario /\ [][NextScenario]_vars

\* series of up to MaxSeries rows polled at uneven gaps (a late poll, two
\* polls close together) and documents with a tuned min_data_window, for the
\* window alone
MaxSeries == 5
WindowGaps == {5, Interval, 20}
DataWindows == {0, 10, 15, 20}

RECURSIVE GapSeqs(_)
GapSeqs(n) ==
    IF n = 0 THEN {<< >>}
    ELSE {Append(g, gap) : g \in GapSeqs(n - 1), gap \in WindowGaps}

RECURSIVE RowsAt(_, _)
RowsAt(gaps, p) ==
    IF gaps = << >> THEN << >>
    ELSE LET rows == RowsAt(SubSeq(gaps, 1, Len(gaps) - 1), p)
         IN  log_to_csv(rows, gaps[Len(gaps)], p)

InitWindow ==
    /\ \E n \in 1..MaxSeries : \E gaps \in GapSeqs(n), p \in {0, 800} :
         series = RowsAt(gaps, p)
    /\ \E mdw \in DataWindows : doc = [DefaultDoc EXCEPT !.min_data_window = mdw]
    /\ pc = "row"
    /\ polled = 0
    /\ regime = "None"
    /\ outbox = << >>
    /\ crashed = FALSE
    /\ feed = << >>
    /\ nSent = NoneSent
    /\ onDelivered = FALSE
    /\ entrySinceOn = FALSE
    /\ anyFailed = FALSE
    /\ Aside

NextWindow == CheckStatus

SpecWindow == InitWindow /\ [][NextWindow]_vars

\* a fresh install (the default document) watching a device that is off for
\* OffPolls polls, draws p W for RunPolls polls (longer than min_runtime) and
\* is off again for OffPolls polls, polled every Interval seconds
OffPolls == 10
RunPolls == 125

FreshFeed(p) ==
    [i \in 1..(OffPolls + RunPolls + OffPolls) |->
        [time |-> StartTime + Interval * (i - 1),
         power |-> IF i > OffPolls /\ i <= OffPolls + RunPolls THEN p ELSE 0,
         total |-> IF i <= OffPolls THEN 0
                   ELSE IF i <= OffPolls + RunPolls THEN i - OffPolls ELSE RunPolls]]

InitFresh ==
    /\ series = << >>
    /\ doc = DefaultDoc
    /\ pc = "poll"
    /\ polled = 0
    /\ regime = "None"
    /\ outbox = << >>
    /\ crashed = FALSE
    /\ \E p \in ScenarioPowers : feed = FreshFeed(p)
    /\ nSent = NoneSent
    /\ onDelivered = FALSE
    /\ entrySinceOn = FALSE
    /\ anyFailed = FALSE
    /\ Aside

NextFresh == PollFeed \/ CheckStatus

\* main() polls every device and evaluates it in every cycle (lines 971-985):
\* the poll is not put off forever, and a polled row does not wait forever
\* for its evaluation (what weak fairness of CheckStatus gives at pc = "row")
Evaluating == []<>(pc = "evaluated")

FairFresh == InitFresh /\ [][NextFresh]_vars /\ WF_vars(PollFeed) /\ Evaluating

\* the rows a device reports after the row last, one poll every Interval
\* seconds, drawing powers[i] W at the i-th
FedRows(last, powers) ==
    [i \in 1..Len(powers) |->
        [time |-> last.time + Interval * i,
         power |-> powers[i],
         total |-> last.total
                     + Cardinality({j \in 1..i : powers[j] > DefaultMaxIdlePower})]]

\* a device with the history h, about to report the given powers
InitFed(h, n, rr, powers) ==
    LET past == Replay(NoPast(TunedDoc(n)), h, FALSE)
    IN  /\ series = past.rows
        /\ doc = [past.c EXCEPT !.re_remind = rr]
        /\ pc = "evaluated"
        /\ polled = 0
        /\ regime = "None"
        /\ outbox = << >>
        /\ crashed = FALSE
        /\ feed = FedRows(past.rows[Len(past.rows)], powers)
        /\ nSent = NoneSent
        /\ onDelivered = past.onDelivered
        /\ entrySinceOn = past.entrySinceOn
        /\ anyFailed = FALSE
        /\ Aside

\* a device whose run was announced (On, then Done after 20 min of idling at
\* 3 W) and which is never switched off: it runs again for RunAgain polls
\* and then idles at 3 W for IdlePolls polls, longer than min_runtime
RunAgain == 3
IdlePolls == 125
HistoryAnnounced == HistoryOn \o Times3(1240, 3)
RunAndIdle == [i \in 1..(RunAgain + IdlePolls) |-> IF i <= RunAgain THEN 800 ELSE 3]

\* re_remind as in the defaults (line 362)
InitIdleRuns ==
    \E n \in {DefaultNotification, TunedNotification} :
        InitFed(HistoryAnnounced, n, FALSE, RunAndIdle)

FairIdleRuns == InitIdleRuns /\ [][NextFresh]_vars /\ WF_vars(PollFeed) /\ Evaluating

\* a device that was announced off and is started: it runs for RunOnce
\* polls, idles at 3 W for three polls and is switched off
RunOnce == 5
StartAndStop == [i \in 1..(RunOnce + 6) |->
                    IF i <= RunOnce THEN 800 ELSE IF i <= RunOnce + 3 THEN 3 ELSE 0]

InitRetry ==
    \E rr \in BOOLEAN, n \in {DefaultNotification, TunedNotification} :
        InitFed(HistoryOff, n, rr, StartAndStop)

FairRetry == InitRetry /\ [][NextFresh]_vars /\ WF_vars(PollFeed) /\ Evaluating

NextClassify == CheckStatus

SpecClassify == InitClassify /\ [][NextClassify]_vars

-----------------------------------------------------------------------------
(* The debug replay, do_once(debug=True), lines 940-950.  The log has a     *)
(* header line, so length_of_log - 1 is the number of rows n; the offsets    *)
(* n, n-1, .., 0 are evaluated in turn on the rows lines[:n - offset + 1].    *)
(* An offset above 0 uses *.mock_run.json and suppresses the messages        *)
(* (lines 818-819, 853, 859, 863); the first offset loads with reset.         *)
(* Offset 0 is a plain check_status: the live document, nothing suppressed.   *)

\* Config(json_name, reset), lines 65-88 and 344-411: a load with reset puts
\* the defaults over the top-level fields that have one; "stats" is merged by
\* the recursive call, which is made without reset
load_config(c, reset) ==
    IF reset
    THEN [c EXCEPT !.off_power = DefaultOffPower,
                   !.max_idle_power = DefaultMaxIdlePower,
                   !.min_runtime = DefaultMinRuntimeMinutes * 60,
                   !.min_data_window = DefaultMinDataWindowSeconds,
                   !.re_remind = FALSE]
    ELSE c

\* the offsets k, k-1, .., 1 of the replay of rows, from the mock document m
RECURSIVE MockRun(_, _, _, _)
MockRun(rows, m, k, now) ==
    IF k = 0 THEN [c |-> m, err |-> FALSE]
    ELSE LET n == Len(rows)
             r == check_status(SubSeq(rows, 1, n - k + 1), load_config(m, k = n),
                               AllOk, now, k > 0)
         IN  IF r.err THEN [c |-> m, err |-> TRUE]   \* the process ends at the exception
             ELSE MockRun(rows, r.c, k - 1, now)

DoOnceDebug ==
    /\ pc = "evaluated"
    /\ series # << >>
    /\ LET now == Now(series)
           m == MockRun(series, mock, Len(series), now)
       IN  /\ mock' = m.c
           /\ IF m.err
              THEN /\ crashed' = TRUE
                   /\ outbox' = << >>
                   /\ UNCHANGED <<doc, regime, nSent, onDelivered, entrySinceOn, anyFailed>>
              ELSE \E acks \in Acks(check_status(series, doc, AllOk, now, 0 > 0).out) :
                     LET r == check_status(series, doc, acks, now, 0 > 0)
                     IN  /\ doc' = r.c
                         /\ regime' = r.regime
                         /\ outbox' = r.out
                         /\ crashed' = r.err
                         /\ nSent' = [k \in DOMAIN nSent |->
                                        IF k \in Kinds(r.out) THEN Counted(nSent[k])
                                        ELSE nSent[k]]
                         /\ onDelivered' = OnDeliveredAfter(onDelivered, r)
                         /\ entrySinceOn' = EntrySinceOnAfter(entrySinceOn, doc, r)
                         /\ anyFailed' = (anyFailed \/ ~ResultOk(r.out))
    /\ pc' = "replayed"
    /\ UNCHANGED <<series, polled, feed, loop, stored, mem, csv>>

\* the logger is run live, and now and then in debug mode
InitReplay ==
    \/ \E n \in {DefaultNotification, TunedNotification} : InitWith(HistoryStopping, n, TRUE)
    \/ InitWith(HistoryFinishing, DefaultNotification, TRUE)

\* a poll one polling interval after the last one
PollOnTime ==
    /\ feed = << >>
    /\ polled < MaxPolls
    /\ pc # "row"
    /\ \E p \in Powers : series' = log_to_csv(series, Interval, p)
    /\ pc' = "row"
    /\ polled' = polled + 1
    /\ UNCHANGED <<doc, regime, outbox, crashed, feed, nSent, onDelivered, entrySinceOn,
                   anyFailed>>
    /\ UNCHANGED aside

NextReplay == PollOnTime \/ CheckStatus \/ DoOnceDebug

SpecReplay == InitReplay /\ [][NextReplay]_vars

-----------------------------------------------------------------------------
(* The outer loop, main(), lines 963-985: NumCycles cycles, each calling     *)
(* do_once for the devices in turn.  No call on the way from main to the     *)
(* requests is wrapped in try/except but dev.get_name() (lines 502-507), so   *)
(* every other exception ends main.  Of a device the loop model keeps the     *)
(* number of rows of its csv; of the last do_once it keeps how far it came.   *)

NumDevices == 3         \* ips
NumCycles == 6          \* range(interval, 60 + 61 % interval, interval)
KeepLines == 100        \* prune_file: keep_n_lines
MaxRuns == 2            \* runs of main() (bound of the model)
OldLines == {1, 3}      \* rows a csv holds beyond KeepLines when main starts

Devices == 1..NumDevices

\* how far a do_once came: the request that failed ("none" if none did), the
\* row appended, check_status called, the document saved
Came(failed, row, checked, saved) ==
    [failed |-> failed, row |-> row, checked |-> checked, saved |-> saved]

\* main() at its start; raised is the exception that ended it; calls is the
\* set of <<cycle, device>> for which do_once was called
Started(rows, run) ==
    [cycle |-> 1, dev |-> 1, run |-> run, alive |-> TRUE, raised |-> "none",
     last |-> Came("none", FALSE, FALSE, FALSE), rows |-> rows, calls |-> {}]

\* the loop moves on to the next device, the next cycle, or the end of main
Advance(l) ==
    IF l.dev < NumDevices THEN [l EXCEPT !.dev = l.dev + 1]
    ELSE IF l.cycle < NumCycles THEN [l EXCEPT !.cycle = l.cycle + 1, !.dev = 1]
    ELSE [l EXCEPT !.cycle = NumCycles + 1, !.dev = 1, !.alive = FALSE]

\* an exception that reaches main ends the process
Raise(l, what) == [l EXCEPT !.alive = FALSE, !.raised = what]

\* prune_file, lines 886-932, on a csv of n rows: lines = all_lines[:-100] is
\* empty for n <= 100 and lines[0] raises IndexError; else the first and the
\* last of the older rows are kept (twice the same row if there is only one),
\* and of the rows between them those that differ from a neighbour
PrunedRows(n) ==
    LET m == n - KeepLines
    IN  IF m = 1 THEN {KeepLines + 2}
        ELSE IF m = 2 THEN {KeepLines + 2}
        ELSE {KeepLines + 2, n}     \* the rows between all alike, or all kept

\* do_once(ip), live: log_to_csv, check_status, prune_file
DoOnce ==
    /\ loop.alive
    /\ LET d == loop.dev
           l == [loop EXCEPT !.calls = @ \cup {<<loop.cycle, d>>}]
           n1 == loop.rows[d] + 1
       IN  \/ \* dev.get_name() raises: caught, log_to_csv returns None
              loop' = Advance([l EXCEPT !.last = Came("get_name", FALSE, FALSE, FALSE)])
           \/ \* dev.get_all_monitoring() raises inside "with open(file_name, 'a')"
              loop' = Raise([l EXCEPT !.last = Came("get_all_monitoring", FALSE, FALSE, FALSE)],
                            "get_all_monitoring")
           \/ \* the row is written and check_status raises before save_config
              loop' = Raise([l EXCEPT !.rows[d] = n1,
                                      !.last = Came("none", TRUE, TRUE, FALSE)],
                            "check_status")
           \/ \* the row is written, check_status saves the document, prune_file runs
              LET l1 == [l EXCEPT !.rows[d] = n1, !.last = Came("none", TRUE, TRUE, TRUE)]
              IN  IF n1 <= KeepLines
                  THEN loop' = Raise(l1, "prune_file")
                  ELSE \E n2 \in PrunedRows(n1) : loop' = Advance([l1 EXCEPT !.rows[d] = n2])
    /\ UNCHANGED device
    /\ UNCHANGED <<mock, stored, mem, csv>>

\* main() is started again (by the timer that runs it every minute)
Start ==
    /\ ~loop.alive
    /\ loop.run < MaxRuns
    /\ loop' = Started(loop.rows, loop.run + 1)
    /\ UNCHANGED device
    /\ UNCHANGED <<mock, stored, mem, csv>>

\* the device part is at rest
Device0 ==
    /\ series = << >>
    /\ doc = DefaultDoc
    /\ pc = "poll"
    /\ polled = 0
    /\ regime = "None"
    /\ outbox = << >>
    /\ crashed = FALSE
    /\ feed = << >>
    /\ nSent = NoneSent
    /\ onDelivered = FALSE
    /\ entrySinceOn = FALSE
    /\ anyFailed = FALSE

\* new devices (no csv yet) and devices logged for a long time
InitCycle ==
    /\ Device0
    /\ NoReplay
    /\ NoStore
    /\ NoCsv
    /\ \E rows \in [Devices -> {0} \cup {KeepLines + m : m \in OldLines}] :
         loop = Started(rows, 1)

NextCycle == DoOnce \/ Start

SpecCycle == InitCycle /\ [][NextCycle]_vars

-----------------------------------------------------------------------------
(* The document as a json file.  A document is a tree: a dict is            *)
(* [items |-> function from keys to trees], any other json value is          *)
(* [leaf |-> v] with v a number (true and false are 1 and 0, a timestamp's    *)
(* ISO string is its number of seconds).                                      *)

Leaf(v) == [leaf |-> v]
Dict(f) == [items |-> f]
IsDict(x) == "items" \in DOMAIN x
NoItems == [k \in {} |-> Leaf(0)]
Has(d, k) == k \in DOMAIN d.items

\* the tree of a document of the tick model (Config's setters write these keys)
Raw(c) ==
    LET counter == IF c.re_remind_counter = Absent THEN NoItems
                   ELSE [k \in {"re_remind_counter"} |-> Leaf(c.re_remind_counter)]
        top == [k \in {"off_power", "max_idle_power", "min_runtime_minutes",
                       "min_data_window_minutes", "re_remind"} |->
                  CASE k = "off_power" -> Leaf(c.off_power)
                    [] k = "max_idle_power" -> Leaf(c.max_idle_power)
                    [] k = "min_runtime_minutes" -> Leaf(c.min_runtime \div 60)
                    [] k = "min_data_window_minutes" -> Leaf(c.min_data_window)
                    [] OTHER -> Leaf(IF c.re_remind THEN 1 ELSE 0)]
        stat(r) == [k \in {"time", "last_sent", "power_total", "notification"} |->
                      CASE k = "time" -> Leaf(c.stats[r].time)
                        [] k = "last_sent" -> Leaf(c.stats[r].last_sent)
                        [] k = "power_total" -> Leaf(c.stats[r].power_total)
                        [] OTHER -> Dict([t \in TargetSet |->
                                            Leaf(c.stats[r].notification[t])])]
    IN  Dict(top @@ counter @@ [k \in {"stats"} |-> Dict([r \in Records |-> Dict(stat(r))])])

\* load_config, lines 357-409: the default document
DefaultRaw == Raw(DefaultDoc)

RECURSIVE update_dict_recursive(_, _, _)

\* a variant that lets the default win over the stored value
update_dict_recursive_reset(config, default, reset) ==
    Dict([k \in DOMAIN config.items \cup DOMAIN default.items |->
            IF ~Has(default, k) THEN config.items[k]
            ELSE IF IsDict(default.items[k])
            THEN update_dict_recursive(IF Has(config, k) THEN config.items[k]
                                       ELSE Dict(NoItems),
                                       default.items[k], FALSE)
            ELSE default.items[k]])

\* update_dict_recursive, lines 65-88
update_dict_recursive(config, default, reset) ==
    Dict([k \in DOMAIN config.items \cup DOMAIN default.items |->
            IF ~Has(default, k) THEN config.items[k]
            ELSE IF IsDict(default.items[k])
            THEN update_dict_recursive(IF Has(config, k) THEN config.items[k]
                                       ELSE Dict(NoItems),
                                       default.items[k], FALSE)
            ELSE IF reset THEN default.items[k]
            ELSE IF Has(config, k) THEN config.items[k]
            ELSE default.items[k]])

\* json.dumps: the text as a sequence of tokens
Open == [t |-> "{", k |-> "", v |-> 0]
Close == [t |-> "}", k |-> "", v |-> 0]
Key(k) == [t |-> "key", k |-> k, v |-> 0]
Val(v) == [t |-> "value", k |-> "", v |-> v]

RECURSIVE Listed(_)
Listed(S) ==
    IF S = {} THEN << >>
    ELSE LET k == CHOOSE x \in S : TRUE IN <<k>> \o Listed(S \ {k})

RECURSIVE dumps(_)
RECURSIVE DumpItems(_, _)
DumpItems(f, keys) ==
    IF keys = << >> THEN << >>
    ELSE LET x == f[keys[1]]
         IN  <<Key(keys[1])>> \o (IF IsDict(x) THEN dumps(x) ELSE <<Val(x.leaf)>>)
                 \o DumpItems(f, Tail(keys))

dumps(d) == <<Open>> \o DumpItems(d.items, Listed(DOMAIN d.items)) \o <<Close>>

\* json.loads: ok is FALSE where json.loads raises JSONDecodeError
Failed == [ok |-> FALSE, v |-> Dict(NoItems), rest |-> << >>]

\* the items after an opening brace, up to its closing brace
RECURSIVE LoadItems(_, _)
LoadItems(ts, acc) ==
    IF ts = << >> THEN Failed
    ELSE IF ts[1].t = "}" THEN [ok |-> TRUE, v |-> Dict(acc), rest |-> Tail(ts)]
    ELSE IF ts[1].t # "key" \/ Len(ts) < 2 THEN Failed
    ELSE IF ts[2].t = "value"
    THEN LoadItems(SubSeq(ts, 3, Len(ts)),
                   [k \in DOMAIN acc \cup {ts[1].k} |->
                       IF k = ts[1].k THEN Leaf(ts[2].v) ELSE acc[k]])
    ELSE IF ts[2].t = "{"
    THEN LET r == LoadItems(SubSeq(ts, 3, Len(ts)), NoItems)
         IN  IF ~r.ok THEN Failed
             ELSE LoadItems(r.rest,
                            [k \in DOMAIN acc \cup {ts[1].k} |->
                                IF k = ts[1].k THEN r.v ELSE acc[k]])
    ELSE Failed

loads(ts) ==
    IF ts = << >> \/ ts[1].t # "{" THEN Failed
    ELSE LET r == LoadItems(Tail(ts), NoItems)
         IN  IF r.ok /\ r.rest = << >> THEN r ELSE Failed

\* the file: exists is FALSE while there is no file of that name
NoFile == [exists |-> FALSE, text |-> << >>]
File(text) == [exists |-> TRUE, text |-> text]

\* Config.__init__ and load_config, lines 344-411: raised is TRUE where
\* json.loads raises (only FileNotFoundError is caught)
Loaded(file, reset) ==
    IF ~file.exists
    THEN [raised |-> FALSE, config |-> update_dict_recursive(Dict(NoItems), DefaultRaw, reset)]
    ELSE IF ~loads(file.text).ok
    THEN [raised |-> TRUE, config |-> Dict(NoItems)]
    ELSE [raised |-> FALSE,
          config |-> update_dict_recursive(loads(file.text).v, DefaultRaw, reset)]

\* save_config, lines 414-424: the deprecated keys are deleted from the document
Without(d, keys) == Dict([k \in DOMAIN d.items \ keys |-> d.items[k]])

\* a variant of the deletion that also drops the keys without a default
UndeprecatedStrict(d) ==
    Without(d, DOMAIN d.items \ DOMAIN DefaultRaw.items)

Undeprecated(d) ==
    LET top == Without(d, {"min_idle_minutes", "min_done_count", "min_idle_count"})
    IN  IF Has(top, "stats")
        THEN Dict([k \in DOMAIN top.items |->
                     IF k = "stats" THEN Without(top.items[k], {"skipped_print_count"})
                     ELSE top.items[k]])
        ELSE top

\* the keys a path of keys leads through: the tree with the value at the path
\* replaced, and the tree with the key at the path deleted
RECURSIVE Put(_, _, _)
Put(d, path, x) ==
    LET k == path[1]
        sub == IF Has(d, k) /\ Len(path) > 1 THEN d.items[k] ELSE Dict(NoItems)
    IN  Dict([j \in DOMAIN d.items \cup {k} |->
                IF j # k THEN d.items[j]
                ELSE IF Len(path) = 1 THEN x
                ELSE Put(sub, Tail(path), x)])

RECURSIVE Deleted(_, _)
Deleted(d, path) ==
    LET k == path[1]
    IN  IF ~Has(d, k) THEN d
        ELSE IF Len(path) = 1 THEN Without(d, {k})
        ELSE Dict([j \in DOMAIN d.items |->
                     IF j = k THEN Deleted(d.items[j], Tail(path)) ELSE d.items[j]])

RECURSIVE PutAll(_, _, _)
PutAll(d, paths, x) ==
    IF paths = {} THEN d
    ELSE LET q == CHOOSE q \in paths : TRUE IN PutAll(Put(d, q, x), paths \ {q}, x)

RECURSIVE DeletedAll(_, _)
DeletedAll(d, paths) ==
    IF paths = {} THEN d
    ELSE LET q == CHOOSE q \in paths : TRUE IN DeletedAll(Deleted(d, q), paths \ {q})

\* the json files found at the start: the document a finished run of the
\* device left behind, or the empty one, with up to MaxDeleted keys missing
\* (a file written by an older version, or edited by hand) and up to MaxExtra
\* keys that have no default; or no file
MaxDeleted == 1
MaxExtra == 2
ExtraValue == 7

DeletablePaths ==
    {<<"re_remind">>, <<"re_remind_counter">>, <<"stats">>, <<"stats", "done">>,
     <<"stats", "done", "last_sent">>, <<"stats", "on", "notification", "todo">>}

ExtraPaths ==
    {<<"name">>, <<"min_idle_minutes">>, <<"min_done_count">>, <<"min_idle_count">>,
     <<"stats", "skipped_print_count">>, <<"stats", "on", "note">>}

UpTo(S, n) == {T \in SUBSET S : Cardinality(T) <= n}

LivedDoc == Replay(NoPast(TunedDoc(TunedNotification)), HistoryDone, FALSE).c

StoredDocuments ==
    {PutAll(DeletedAll(base, del), ext, Leaf(ExtraValue)) :
        base \in {Raw(LivedDoc), Dict(NoItems)},
        del \in UpTo(DeletablePaths, MaxDeleted),
        ext \in UpTo(ExtraPaths, MaxExtra)}

\* what the ticks write into the document in memory (the setters of Config)
Written == {<< <<"re_remind_counter">>, 0 >>, << <<"stats", "on", "time">>, StartTime >>}

\* where a write that is cut short can stop: nothing written, half of the
\* text, all but the closing brace
Cuts(text) == {0, Len(text) \div 2, Len(text) - 1}

\* mem.pc is "start" before Config is constructed, "loaded" after it, "saved"
\* after save_config, "raised" when the load raised, "stopped" when the process
\* was stopped; mem.reset is the reset flag of the load, mem.asked the document
\* save_config was called with

\* Config(json_name, reset): the start of a tick
Load ==
    /\ mem.pc \in {"start", "saved"}
    /\ \E reset \in BOOLEAN :
         LET r == Loaded(stored, reset)
         IN  mem' = [pc |-> IF r.raised THEN "raised" ELSE "loaded", config |-> r.config,
                     reset |-> reset, asked |-> Dict(NoItems)]
    /\ UNCHANGED stored
    /\ UNCHANGED device
    /\ UNCHANGED <<mock, loop, csv>>

\* a setter of Config called by the tick
Write ==
    /\ mem.pc = "loaded"
    /\ \E w \in Written :
         mem' = [mem EXCEPT !.config = Put(mem.config, w[1], Leaf(w[2]))]
    /\ UNCHANGED stored
    /\ UNCHANGED device
    /\ UNCHANGED <<mock, loop, csv>>

\* save_config, lines 413-428
Save ==
    /\ mem.pc = "loaded"
    /\ mem' = [mem EXCEPT !.pc = "saved", !.config = Undeprecated(mem.config),
                          !.asked = mem.config]
    /\ stored' = File(dumps(Undeprecated(mem.config)))
    /\ UNCHANGED device
    /\ UNCHANGED <<mock, loop, csv>>

\* the process is stopped (killed, power lost) inside save_config, after
\* open(json_name, mode='w') has truncated the file and before the text is
\* written out in full
StoppedInSave ==
    /\ mem.pc = "loaded"
    /\ mem' = [mem EXCEPT !.pc = "stopped", !.config = Undeprecated(mem.config)]
    /\ \E n \in Cuts(dumps(Undeprecated(mem.config))) :
         stored' = File(SubSeq(dumps(Undeprecated(mem.config)), 1, n))
    /\ UNCHANGED device
    /\ UNCHANGED <<mock, loop, csv>>

\* the logger is started again after it was stopped or ended by an exception
Restart ==
    /\ mem.pc \in {"stopped", "raised"}
    /\ mem' = [pc |-> "start", config |-> Dict(NoItems), reset |-> FALSE,
               asked |-> Dict(NoItems)]
    /\ UNCHANGED stored
    /\ UNCHANGED device
    /\ UNCHANGED <<mock, loop, csv>>

InitStore ==
    /\ Device0
    /\ NoReplay
    /\ NoLoop
    /\ NoCsv
    /\ stored \in {NoFile} \cup {File(dumps(d)) : d \in StoredDocuments}
    /\ mem = [pc |-> "start", config |-> Dict(NoItems), reset |-> FALSE,
              asked |-> Dict(NoItems)]

NextStore == Load \/ Write \/ Save \/ StoppedInSave \/ Restart

SpecStore == InitStore /\ [][NextStore]_vars

-----------------------------------------------------------------------------
(* Properties.  A tick is one step of CheckStatus: it is the only step that  *)
(* ends with pc = "evaluated".  In an action formula the unprimed variables   *)
(* are the document and the messages before the tick, the primed ones after.  *)

Ticks == pc' = "evaluated"

TickWindow == Window(series, doc.min_data_window, Interval)
TickLatest == series[Len(series)].time
TickEarliest == TickWindow[1].time

Sends(out, k) == \E i \in 1..Len(out) : out[i].kind = k
SendsTo(out, k, t) == \E i \in 1..Len(out) : out[i].kind = k /\ out[i].target = t
AllAcked(out) == \A i \in 1..Len(out) : out[i].ok = TRUE
IsReminder(out) == \E i \in 1..Len(out) : out[i].reminder = TRUE
SendsToAllEnabled(c, out, k) == \A t \in TargetSet : Level(c, k, t) > 0 => SendsTo(out, k, t)

On == doc.stats["on"]
Off == doc.stats["off"]
Done == doc.stats["done"]
Running == doc.stats["running"]

\* C1: from the default document, with ten samples at 0 W and then the first
\* sample of a running device, 10 s apart, once the tick of that 11th sample has
\* been evaluated (once or several times, every delivery acknowledged) exactly
\* one On notification has been sent.
C1_ScenarioAnnouncesOnOnce ==
    (Len(series) = 11 /\ pc = "evaluated" /\ ~anyFailed)
        => (regime = "Starting" /\ nSent["on"] = 1)

\* the scenario's tick was evaluated, nothing failed, and no On message went out
C1_Witness ==
    /\ Len(series) = 11 /\ pc = "evaluated" /\ ~anyFailed
    /\ regime = "Starting"
    /\ nSent["on"] = 0
    /\ On.time = DatetimeMin /\ On.last_sent = DatetimeMin

\* the tick of the scenario's 11th sample is classified Starting
C1_ScenarioClassifiesStarting ==
    (Len(series) = 11 /\ pc = "evaluated") => regime = "Starting"

\* C2: a Starting tick sends an On notification only if on.last_sent is before
\* the tick's time (hence before now) and the later of off.time and done.time is
\* after on.last_sent; and an On notification that follows a delivered one is
\* sent only after off.time or done.time was written since that delivery.
C2_Step ==
    (Ticks /\ Sends(outbox', "on"))
        => /\ regime' = "Starting"
                => /\ On.last_sent < TickLatest
                   /\ On.last_sent < Now(series)
                   /\ Max2(Off.time, Done.time) > On.last_sent
           /\ onDelivered => entrySinceOn

C2_OnOnlyAfterNewEntry == [][C2_Step]_vars

\* a second On notification: an On message goes out (and is not acknowledged)
\* although an earlier one had been delivered
C2_Witness ==
    /\ pc = "evaluated" /\ regime = "Starting"
    /\ Sends(outbox, "on") /\ ~AllAcked(outbox)
    /\ onDelivered
    /\ Max2(Off.time, Done.time) > On.last_sent

\* C3 as stated: with min_runtime 20 min, an Off tick 5 minutes after on.time
\* changes neither off.time nor sends; an Off tick 25 minutes after on.time
\* advances off.time and sends the Off notification.
C3_StatedStep ==
    (Ticks /\ regime' = "Off" /\ doc.min_runtime = 1200)
        => /\ TickLatest - On.time = 300
                => /\ doc'.stats["off"].time = Off.time
                   /\ ~Sends(outbox', "off")
           /\ TickLatest - On.time = 1500
                => /\ doc'.stats["off"].time > Off.time
                   /\ Sends(outbox', "off")

C3_Stated == [][C3_StatedStep]_vars

\* C3: with min_runtime 20 min, an Off tick 5 minutes after on.time (by its
\* latest or by its earliest sample) changes neither off.time nor sends; an Off
\* tick whose earliest sample is at least min_runtime after the later of on.time
\* and done.time and at least min_data_window after running.time, that later
\* entry being after off.last_sent, sets off.time to that earliest sample time
\* (never an earlier time than it held) and sends the Off notification to every
\* enabled target.
C3_OffPasses ==
    /\ TickEarliest - Max2(On.time, Done.time) >= doc.min_runtime
    /\ TickEarliest - Running.time >= doc.min_data_window
    /\ Max2(On.time, Done.time) > Off.last_sent

C3_Step ==
    (Ticks /\ regime' = "Off" /\ doc.min_runtime = 1200)
        => /\ (TickLatest - On.time = 300 \/ TickEarliest - On.time = 300)
                => /\ doc'.stats["off"].time = Off.time
                   /\ ~Sends(outbox', "off")
           /\ C3_OffPasses
                => /\ doc'.stats["off"].time = TickEarliest
                   /\ doc'.stats["off"].time >= Off.time
                   /\ SendsToAllEnabled(doc, outbox', "off")
                   /\ Sends(outbox', "off")

C3_OffDebounced == [][C3_Step]_vars

\* an Off tick more than 20 minutes after the On entry has announced Off
C3_Witness ==
    /\ pc = "evaluated" /\ regime = "Off"
    /\ Sends(outbox, "off")
    /\ Off.time = TickEarliest
    /\ Off.time - On.time >= 1200
    /\ On.time > DatetimeMin

\* the records the messages of a fan-out belong to
KindsOf(out) == {out[i].kind : i \in 1..Len(out)}

\* a tick whose fan-out was not acknowledged by every target leaves last_sent
\* of the record as it was
C4_NotMarked ==
    (Ticks /\ ~AllAcked(outbox'))
        => \A k \in KindsOf(outbox') : doc'.stats[k].last_sent = doc.stats[k].last_sent

\* the tick that follows a fan-out with a failed delivery, in the same regime
C4_Retries == Ticks /\ ~AllAcked(outbox) /\ regime' = regime

\* C4 as stated: a fan-out with a non-ok acknowledgment does not advance the
\* record's last_sent, and the next tick, classified with the same regime,
\* attempts the notification again on every enabled target.
C4_StatedStep ==
    /\ C4_NotMarked
    /\ C4_Retries => \A k \in KindsOf(outbox) : SendsToAllEnabled(doc, outbox', k)

C4_Step ==
    /\ C4_NotMarked
    /\ C4_Retries
        => \A k \in KindsOf(outbox) :
             /\ Sends(outbox', k)
             /\ \A t \in TargetSet :
                  SendsTo(outbox', k, t)
                    <=> (Level(doc, k, t) > 0
                            /\ ~(k = "done" /\ t = "todo" /\ IsReminder(outbox')))

RECURSIVE Fibonacci(_)
Fibonacci(n) == IF n <= 1 THEN n ELSE Fibonacci(n - 1) + Fibonacci(n - 2)

\* C5: a Done tick with max(on.time, off.time) <= done.last_sent sends a Done
\* message only if re_remind is set and the tick's time (its earliest sample,
\* hence also its latest sample and now) is at least max(300, F(counter))
\* seconds after done.last_sent; the wait computed for the counters reached is
\* never below 300 and does not decrease as the counter grows.
C5_Step ==
    (Ticks /\ regime' = "Done" /\ Max2(On.time, Off.time) <= Done.last_sent
           /\ Sends(outbox', "done"))
        => /\ doc.re_remind
           /\ doc.re_remind_counter >= 0
           /\ TickEarliest - Done.last_sent >= Max2(300, Fibonacci(doc.re_remind_counter))

C5_WaitGrows ==
    \A n \in 0..doc.re_remind_counter :
        /\ ReRemindWait(n) >= 300
        /\ ReRemindWait(n) <= ReRemindWait(n + 1)
        /\ ReRemindWait(n) = Max2(300, Fibonacci(n))

C5_ReRemindBackoff == [] C5_WaitGrows /\ [][C5_Step]_vars

\* a reminder sent after a wait above the floor: the 15th message of the episode
C5_Witness ==
    /\ pc = "evaluated" /\ regime = "Done"
    /\ IsReminder(outbox) /\ AllAcked(outbox)
    /\ doc.re_remind_counter = 15
    /\ Fibonacci(14) > 300

\* C6 as stated: the counter is 0 after a Running tick and after a tick that
\* sends a message that is no reminder; it grows by one on a tick that sends a
\* reminder; it is unchanged on every other tick.
C6_StatedStep ==
    (Ticks /\ ~crashed')
        => IF regime' = "Running" THEN doc'.re_remind_counter = 0
           ELSE IF outbox' # << >> /\ ~IsReminder(outbox') THEN doc'.re_remind_counter = 0
           ELSE IF IsReminder(outbox') THEN doc'.re_remind_counter = doc.re_remind_counter + 1
           ELSE doc'.re_remind_counter = doc.re_remind_counter

C6_Step ==
    (Ticks /\ ~crashed')
        => IF regime' = "Running" THEN doc'.re_remind_counter = 0
           ELSE IF Sends(outbox', "on") \/ Sends(outbox', "off")
                THEN doc'.re_remind_counter = 0
           ELSE IF Sends(outbox', "done") /\ AllAcked(outbox')
                THEN doc'.re_remind_counter = doc.re_remind_counter + 1
           ELSE doc'.re_remind_counter = doc.re_remind_counter

C7_Step ==
    (Ticks /\ regime' = "Off" /\ Off.last_sent > DatetimeMin
           /\ Max2(On.time, Done.time) <= Off.last_sent)
        => /\ ~Sends(outbox', "off")
           /\ doc'.stats["off"].time = Off.time
           /\ doc'.stats["off"].last_sent = Off.last_sent

C7_NoRepeatedOff == [][C7_Step]_vars

\* an Off tick long after the last run, Off already announced: nothing is sent
C7_Witness ==
    /\ pc = "evaluated" /\ regime = "Off" /\ polled > 0
    /\ outbox = << >>
    /\ Off.last_sent > DatetimeMin
    /\ Max2(On.time, Done.time) <= Off.last_sent
    /\ TickEarliest - Max2(On.time, Done.time) >= doc.min_runtime
    /\ TickEarliest - Running.time >= doc.min_data_window
    /\ TickEarliest > Off.time

\* C8: done.time and done.power_total change only on a Done tick that passes
\* the guards with the counter at 0; a tick that sends a reminder (the counter
\* above 0) leaves both unchanged.
C8_DoneWritten ==
    \/ doc'.stats["done"].time # Done.time
    \/ doc'.stats["done"].power_total # Done.power_total

C8_PassesGuards ==
    /\ TickEarliest - Max2(On.time, Off.time) >= doc.min_runtime
    /\ TickEarliest - Running.time >= doc.min_data_window
    /\ \/ Max2(On.time, Off.time) > Done.last_sent
       \/ /\ doc.re_remind
          /\ TickEarliest - Done.last_sent >= Max2(300, Fibonacci(doc.re_remind_counter))

C8_Step ==
    /\ C8_DoneWritten
        => (Ticks /\ regime' = "Done" /\ doc.re_remind_counter = 0 /\ C8_PassesGuards)
    /\ (Ticks /\ IsReminder(outbox'))
        => (regime' = "Done" /\ doc.re_remind_counter > 0 /\ ~C8_DoneWritten)

C8_DoneEntryOnce == [][C8_Step]_vars

\* a reminder went out and the Done entry still is the one of the first message
C8_Witness ==
    /\ pc = "evaluated" /\ regime = "Done" /\ polled > 0
    /\ IsReminder(outbox)
    /\ doc.re_remind_counter >= 1
    /\ Done.time < TickEarliest

\* the samples of the window the evaluation classified
Samples == PowerList(TickWindow)

\* the k-th smallest sample, by counting
KthSmallest(p, k) ==
    CHOOSE x \in {p[i] : i \in 1..Len(p)} :
        /\ Cardinality({i \in 1..Len(p) : p[i] < x}) < k
        /\ Cardinality({i \in 1..Len(p) : p[i] <= x}) >= k

\* twice the median: the middle sample, or the mean of the two middle samples
TwiceMedian(p) ==
    IF Len(p) % 2 = 1 THEN 2 * KthSmallest(p, (Len(p) + 1) \div 2)
    ELSE KthSmallest(p, Len(p) \div 2) + KthSmallest(p, Len(p) \div 2 + 1)

StartingRule(p, off) ==
    /\ \A i \in 1..Len(p) : i < Len(p) => p[i] <= off
    /\ p[Len(p)] > off

RunningRule(p, idle) == \A i \in 1..Len(p) : p[i] >= idle

\* the first rule that matches, in the order Starting, Running, Off, Done
FirstMatch(p, off, idle) ==
    CASE StartingRule(p, off) -> "Starting"
      [] ~StartingRule(p, off) /\ RunningRule(p, idle) -> "Running"
      [] ~StartingRule(p, off) /\ ~RunningRule(p, idle) /\ TwiceMedian(p) <= 2 * off -> "Off"
      [] ~StartingRule(p, off) /\ ~RunningRule(p, idle) /\ TwiceMedian(p) > 2 * off
            /\ TwiceMedian(p) <= 2 * idle -> "Done"
      [] OTHER -> "Ambiguous"

\* C9: the regime of an evaluated window is the first match of the rules in the
\* order Starting (all but the last sample <= off_power, the last above it),
\* Running (every sample >= max_idle_power), Off (median <= off_power), Done
\* (off_power < median <= max_idle_power), else Ambiguous: one regime for every
\* non-empty window.
C9_FirstMatchWins ==
    (pc = "evaluated" /\ regime # "None")
        => /\ regime = FirstMatch(Samples, doc.off_power, doc.max_idle_power)
           /\ regime \in {"Starting", "Running", "Off", "Done", "Ambiguous"}

\* a window of several samples that matches the Starting and the Running rule
C9_Witness ==
    /\ pc = "evaluated" /\ regime = "Starting"
    /\ Len(Samples) >= 2
    /\ StartingRule(Samples, doc.off_power)
    /\ RunningRule(Samples, doc.max_idle_power)

\* C10 as stated: a window (of any length >= 1) in which every sample is at
\* least max_idle_power is classified Running.
C10_Stated ==
    (pc = "evaluated" /\ regime # "None" /\ RunningRule(Samples, doc.max_idle_power))
        => regime = "Running"

\* C10: a window (of any length >= 1) in which every sample is at least
\* max_idle_power is classified Running, unless all its samples but the last are
\* at most off_power and the last is above off_power (as in every window of one
\* sample above off_power): then it is classified Starting.
C10_RunningUnlessStarting ==
    (pc = "evaluated" /\ regime # "None" /\ RunningRule(Samples, doc.max_idle_power))
        => IF StartingRule(Samples, doc.off_power)
           THEN regime = "Starting"
           ELSE regime = "Running"

\* a window of one sample, at least max_idle_power, classified Starting
C10_Witness ==
    /\ pc = "evaluated" /\ regime = "Starting"
    /\ Len(Samples) = 1
    /\ Samples[1] >= doc.max_idle_power

-----------------------------------------------------------------------------
(* C11.  In debug (dry-run replay) mode no real notification is handed to   *)
(* the transport at any replayed offset, offset 0 included: after a debug    *)
(* run the transport has received nothing.                                   *)
(* The replay of offset 0 is not suppressed and runs on the live document,    *)
(* so it sends whatever a live tick on the same rows would send.             *)
C11_ReplaySendsNothing == pc = "replayed" => outbox = << >>

\* a debug run that followed a live Off tick with a failed delivery has sent
\* the Off message for real
C11_Witness ==
    /\ pc = "replayed"
    /\ ~crashed
    /\ "off" \in KindsOf(outbox)
    /\ \E i \in 1..Len(outbox) : outbox[i].ok

-----------------------------------------------------------------------------
(* C12.  No failure inside one device's evaluation (poll, series read,       *)
(* classification, document load or save, notification send, pruning)        *)
(* propagates into the outer loop: no exception ever reaches main(), so the   *)
(* remaining devices of the cycle and the later cycles are still evaluated.   *)
C12_NoFailureReachesMain == loop.raised = "none"

\* main() was ended by prune_file in the do_once of the first device of the
\* first cycle: do_once was called for no other device and in no other cycle
C12_Witness ==
    /\ loop.raised = "prune_file"
    /\ ~loop.alive
    /\ loop.calls = {<<1, 1>>}
    /\ loop.last.saved

-----------------------------------------------------------------------------
(* C13.  Wherever the process is stopped during an evaluation, in the middle *)
(* of save included, the json file found afterwards is a complete document    *)
(* (the one before the tick or the new one), never empty or partially         *)
(* written: a file that exists always parses.                                 *)
C13_StoredDocumentComplete == stored.exists => loads(stored.text).ok

\* the logger, started again after it was stopped inside save_config, found
\* an empty json file, and its load raised
C13_Witness ==
    /\ mem.pc = "raised"
    /\ stored.exists
    /\ Len(stored.text) = 0

-----------------------------------------------------------------------------
(* The keys of a document tree: the paths to its nodes and to its leaves    *)

RECURSIVE NodePaths(_)
NodePaths(d) ==
    UNION {{<<k>>} \cup (IF IsDict(d.items[k])
                         THEN {<<k>> \o q : q \in NodePaths(d.items[k])}
                         ELSE {}) : k \in DOMAIN d.items}

RECURSIVE At(_, _)
At(d, q) == IF Len(q) = 1 THEN d.items[q[1]] ELSE At(d.items[q[1]], Tail(q))

LeafPaths(d) == {q \in NodePaths(d) : ~IsDict(At(d, q))}

\* a step that constructs Config, and the document of the file it read
LoadStep == mem.pc \in {"start", "saved"} /\ mem'.pc \in {"loaded", "raised"}
StoredDocument == IF stored.exists THEN loads(stored.text).v ELSE Dict(NoItems)

(* C14.  A load (without reset) merges the defaults into the stored         *)
(* document: every key of the stored document is still present, with its     *)
(* stored value, also a key that has no default; every defaulted field the    *)
(* stored document lacks has its default value; and merging the defaults a    *)
(* second time changes nothing.                                               *)
C14_Step ==
    (LoadStep /\ mem'.pc = "loaded" /\ ~mem'.reset) =>
        LET s == StoredDocument
            m == mem'.config
        IN  /\ NodePaths(s) \subseteq NodePaths(m)
            /\ \A q \in LeafPaths(s) : At(m, q) = At(s, q)
            /\ \A q \in LeafPaths(DefaultRaw) \ NodePaths(s) :
                   q \in NodePaths(m) /\ At(m, q) = At(DefaultRaw, q)
            /\ update_dict_recursive(m, DefaultRaw, FALSE) = m

C14_LoadMergesDefaults == [][C14_Step]_vars

\* a loaded document whose file had a key without a default and lacked a
\* defaulted field and a whole record of the stats
C14_Witness ==
    /\ mem.pc = "loaded" /\ ~mem.reset /\ stored.exists
    /\ <<"name">> \in LeafPaths(StoredDocument)
    /\ <<"stats", "done">> \notin NodePaths(StoredDocument)
    /\ <<"stats", "running", "time">> \in LeafPaths(StoredDocument)
    /\ At(StoredDocument, <<"stats", "running", "time">>).leaf # DatetimeMin
    /\ At(mem.config, <<"stats", "running", "time">>) = At(StoredDocument, <<"stats", "running", "time">>)
    /\ <<"stats", "done", "time">> \in LeafPaths(mem.config)

-----------------------------------------------------------------------------
(* C15.  After the load of any stored document, an absent or an empty one    *)
(* included, each of the config fields off_power, max_idle_power,             *)
(* min_runtime_minutes, min_data_window_minutes, re_remind and                *)
(* re_remind_counter has a value, re_remind_counter one that is >= 0, so      *)
(* that a tick (a Done tick with re_remind set in particular) can read them.  *)
ConfigFields ==
    {"off_power", "max_idle_power", "min_runtime_minutes", "min_data_window_minutes",
     "re_remind", "re_remind_counter"}

C15_FieldsAfterLoad ==
    mem.pc = "loaded" =>
        /\ \A f \in ConfigFields : <<f>> \in LeafPaths(mem.config)
        /\ At(mem.config, <<"re_remind_counter">>).leaf >= 0

\* a loaded document with re_remind set and no re_remind_counter
C15_Witness ==
    /\ mem.pc = "loaded"
    /\ At(mem.config, <<"re_remind">>).leaf = 1
    /\ <<"re_remind_counter">> \notin NodePaths(mem.config)

-----------------------------------------------------------------------------
(* C16.  save followed at once by load (without reset) yields the document   *)
(* that was in memory when save was called, except that the deprecated keys   *)
(* min_idle_minutes, min_done_count, min_idle_count and                       *)
(* stats.skipped_print_count are absent.                                      *)
DeprecatedPaths ==
    {<<"min_idle_minutes">>, <<"min_done_count">>, <<"min_idle_count">>,
     <<"stats", "skipped_print_count">>}

C16_Step ==
    (mem.pc = "loaded" /\ mem'.pc = "saved") =>
        LET r == Loaded(stored', FALSE)
        IN  /\ ~r.raised
            /\ r.config = DeletedAll(mem.config, DeprecatedPaths)
            /\ NodePaths(r.config) \cap DeprecatedPaths = {}

C16_SaveLoadRoundTrip == [][C16_Step]_vars

\* a document was saved that held a deprecated top-level key and the
\* deprecated key of the stats, and a counter the tick had written
C16_Witness ==
    /\ mem.pc = "saved"
    /\ <<"min_idle_count">> \in NodePaths(mem.asked)
    /\ <<"stats", "skipped_print_count">> \in NodePaths(mem.asked)
    /\ <<"re_remind_counter">> \in NodePaths(mem.asked)
    /\ NodePaths(StoredDocument) \cap DeprecatedPaths = {}
    /\ <<"re_remind_counter">> \in NodePaths(StoredDocument)

-----------------------------------------------------------------------------
(* C17.  When the json file exists but is not parsable, load treats it as    *)
(* absent: the tick goes on with the all-default document and does not fail.  *)
C17_Step ==
    (LoadStep /\ stored.exists /\ ~loads(stored.text).ok) =>
        /\ mem'.pc = "loaded"
        /\ mem'.config = DefaultRaw

C17_UnparsableLoadsAsAbsent == [][C17_Step]_vars

\* the load of a file that holds the first part of a document's text raised
C17_Witness ==
    /\ mem.pc = "raised"
    /\ stored.exists
    /\ Len(stored.text) > 1
    /\ ~loads(stored.text).ok

-----------------------------------------------------------------------------
(* C18.  When the poll of a device fails, at the name request or at the      *)
(* telemetry request, that device's cycle is skipped: no row is appended,     *)
(* the document is not touched (check_status is not called, nothing is        *)
(* saved or sent), and the cycle goes on with the other devices.              *)
C18_FailedPollSkipsDevice ==
    loop.last.failed # "none" =>
        /\ ~loop.last.row
        /\ ~loop.last.checked
        /\ ~loop.last.saved
        /\ loop.raised = "none"

\* the telemetry request of the second device failed in the first cycle:
\* main() is over, do_once was never called for the third device
C18_Witness ==
    /\ loop.last.failed = "get_all_monitoring"
    /\ loop.raised = "get_all_monitoring"
    /\ ~loop.alive
    /\ loop.calls = {<<1, 1>>, <<1, 2>>}

-----------------------------------------------------------------------------
(* C19.  For every record R of On, Off, Done and every target t: a tick that *)
(* notifies for R sends to t if and only if R's own level for t is above 0,   *)
(* and the message to t is muted if and only if that level is 1 (it alerts    *)
(* if and only if the level is 2), whatever the levels of the other records.  *)
C19_Step ==
    Ticks =>
        /\ \A k \in KindsOf(outbox'), t \in TargetSet :
               SendsTo(outbox', k, t) <=> (doc.stats[k].notification[t] > 0)
        /\ \A i \in 1..Len(outbox') :
               outbox'[i].muted <=>
                   (doc.stats[outbox'[i].kind].notification[outbox'[i].target] = 1)

C19_OwnUrgencyDecides == [][C19_Step]_vars

\* an Off message went to jo_private, whose level for Off is 1, with an alert
C19_Witness ==
    /\ pc = "evaluated"
    /\ doc.stats["off"].notification["jo_private"] = 1
    /\ \E i \in 1..Len(outbox) :
          /\ outbox[i].kind = "off"
          /\ outbox[i].target = "jo_private"
          /\ ~outbox[i].muted

-----------------------------------------------------------------------------
(* C20.  For every record, last_sent never decreases, over any sequence of   *)
(* ticks: live ticks, ticks whose delivery failed, and the ticks of a debug   *)
(* replay, whose first one loads the replay's document with reset.            *)
C20_Step ==
    \A r \in Records :
        /\ doc'.stats[r].last_sent >= doc.stats[r].last_sent
        /\ mock'.stats[r].last_sent >= mock.stats[r].last_sent

-----------------------------------------------------------------------------
(* C21 as stated.  For every record, time (enteredAt) changes only on a     *)
(* tick that detects a new entry into the regime, never to an earlier        *)
(* value; a tick that stays in the regime of the tick before it (a retry of   *)
(* a failed notification included) does not rewrite it.                       *)
C21_StatedStep ==
    Ticks =>
        /\ \A r \in Records : doc'.stats[r].time >= doc.stats[r].time
        /\ regime' = regime => \A r \in Records : doc'.stats[r].time = doc.stats[r].time

C21_Stated == [][C21_StatedStep]_vars

(* C21.  The time of a record never moves to an earlier value.  That of      *)
(* Running changes only on a Running tick, to the latest sample time (every   *)
(* Running tick writes it).  That of On changes only on a Starting or         *)
(* Running tick, to the latest sample time, when Off or Done was entered      *)
(* after the last delivered On message; that of Off only on an Off tick, to   *)
(* the window's earliest sample time, when On or Done was entered after the   *)
(* last delivered Off message; that of Done only on a Done tick with          *)
(* re_remind_counter 0, to the window's earliest sample time, when On or Off  *)
(* was entered after the last delivered Done message or a reminder is due.    *)
(* A tick that retries a failed notification passes the same test and         *)
(* writes the time again.                                                     *)
C21_Step ==
    Ticks =>
        /\ \A r \in Records : doc'.stats[r].time >= doc.stats[r].time
        /\ doc'.stats["running"].time # Running.time
              => /\ regime' = "Running"
                 /\ doc'.stats["running"].time = TickLatest
        /\ doc'.stats["on"].time # On.time
              => /\ regime' \in {"Starting", "Running"}
                 /\ doc'.stats["on"].time = TickLatest
                 /\ On.last_sent < TickLatest
                 /\ Max2(Off.time, Done.time) > On.last_sent
        /\ doc'.stats["off"].time # Off.time
              => /\ regime' = "Off"
                 /\ doc'.stats["off"].time = TickEarliest
                 /\ Max2(On.time, Done.time) > Off.last_sent
        /\ doc'.stats["done"].time # Done.time
              => /\ regime' = "Done"
                 /\ doc'.stats["done"].time = TickEarliest
                 /\ doc.re_remind_counter = 0
                 /\ \/ Max2(On.time, Off.time) > Done.last_sent
                    \/ /\ doc.re_remind
                       /\ TickEarliest - Done.last_sent >= ReRemindFloor

C21_EnteredAtWrittenOnEntry == [][C21_Step]_vars

\* the Off message was sent a second time (the first delivery had failed) and
\* the Off entry was written again, as the earliest sample of the later window
C21_Witness ==
    /\ pc = "evaluated" /\ regime = "Off"
    /\ Sends(outbox, "off")
    /\ nSent["off"] >= 2
    /\ polled = 2
    /\ Off.time = TickEarliest

-----------------------------------------------------------------------------
(* The csv log as a file: log_to_csv appends the polled row, prune_file      *)
(* (lines 886-932) rewrites the file.  A row carries its Time and the four    *)
(* columns prune_file compares.  do_once(ip) runs log_to_csv, check_status    *)
(* (which only reads the csv) and prune_file, in this order.                  *)

MaxLogged == 2      \* rows appended by log_to_csv after the initial file
MaxOlder == 3       \* rows of the initial file before its latest rows
RestartGap == 60    \* seconds between two starts of main()

interesting_keys == {"Power", "Total", "TotalStartTime", "power1"}

\* what a poll can report: relay off; relay on and the device idle; the
\* device running (the energy counter advances); the energy counter was reset
SampleKinds == {"off", "idle", "run", "reset"}
PolledKinds == {"off", "run"}

Sample(rows, gap, kind) ==
    LET time == IF rows = << >> THEN StartTime ELSE rows[Len(rows)].Time + gap
        total == IF rows = << >> THEN 0 ELSE rows[Len(rows)].Total
        since == IF rows = << >> THEN StartTime ELSE rows[Len(rows)].TotalStartTime
    IN  [Time |-> time,
         Power |-> IF kind = "run" THEN 800 ELSE IF kind = "idle" THEN 3 ELSE 0,
         Total |-> IF kind = "reset" THEN 0 ELSE IF kind = "run" THEN total + 1 ELSE total,
         TotalStartTime |-> IF kind = "reset" THEN time ELSE since,
         power1 |-> IF kind = "off" THEN 0 ELSE 1]

\* the file after polls, Interval apart, that reported the given kinds, none
\* of them pruned: row i is Sample(rows before it, Interval, kinds[i])
FileOf(kinds) ==
    [i \in 1..Len(kinds) |->
        LET reset == SetMax({0} \cup {j \in 1..i : kinds[j] = "reset"})
        IN  [Time |-> StartTime + Interval * (i - 1),
             Power |-> IF kinds[i] = "run" THEN 800 ELSE IF kinds[i] = "idle" THEN 3 ELSE 0,
             Total |-> Cardinality({j \in (reset + 1)..i : kinds[j] = "run"}),
             TotalStartTime |-> IF reset = 0 THEN StartTime
                                ELSE StartTime + Interval * (reset - 1),
             power1 |-> IF kinds[i] = "off" THEN 0 ELSE 1]]

RECURSIVE KindSeqs(_)
KindSeqs(n) ==
    IF n = 0 THEN {<< >>}
    ELSE {Append(k, s) : k \in KindSeqs(n - 1), s \in SampleKinds}

\* triplewise('ABCDEFG') --> ABC BCD CDE DEF EFG, lines 37-41
triplewise(lines) ==
    [i \in 1..(Len(lines) - 2) |-> <<lines[i], lines[i + 1], lines[i + 2]>>]

\* the centre line differs from the previous or from the next in some
\* interesting key, lines 909-921
Kept(line_triplet) ==
    \E key \in interesting_keys :
        \/ line_triplet[1][key] # line_triplet[2][key]
        \/ line_triplet[2][key] # line_triplet[3][key]

\* all_lines[-keep_n_lines:] (line 904); the variant keeps one line less
KeptBackShort(all_lines) ==
    SubSeq(all_lines, Max2(1, Len(all_lines) - KeepLines + 2), Len(all_lines))
KeptBack(all_lines) ==
    SubSeq(all_lines, Max2(1, Len(all_lines) - KeepLines + 1), Len(all_lines))

\* prune_file on the rows of the file: raised is the IndexError of lines[0]
\* (line 906) when all_lines[:-keep_n_lines] is empty; the file is then not
\* rewritten
prune_file(all_lines) ==
    LET lines == SubSeq(all_lines, 1, Len(all_lines) - KeepLines)
        lines_kept_back == KeptBack(all_lines)
        centres == SelectSeq(triplewise(lines), Kept)
        kept_lines == <<lines[1]>> \o [i \in 1..Len(centres) |-> centres[i][2]]
                        \o <<lines[Len(lines)]>> \o lines_kept_back
    IN  IF lines = << >>
        THEN [raised |-> TRUE, rows |-> all_lines]
        ELSE [raised |-> FALSE, rows |-> kept_lines]

\* log_to_csv, lines 534-542: the polled row is appended
LogToCsv ==
    /\ csv.pc \in {"start", "pruned", "raised"}
    /\ csv.logged < MaxLogged
    /\ \E kind \in PolledKinds :
         LET gap == IF csv.pc = "raised" THEN RestartGap ELSE Interval
         IN  csv' = [csv EXCEPT !.rows = Append(@, Sample(@, gap, kind)),
                                !.before = csv.rows,
                                !.pc = "logged",
                                !.logged = @ + 1]
    /\ UNCHANGED device
    /\ UNCHANGED <<mock, loop, stored, mem>>

\* prune_file(file_name), line 953
PruneFile ==
    /\ csv.pc = "logged"
    /\ LET r == prune_file(csv.rows)
       IN  csv' = [csv EXCEPT !.rows = r.rows,
                              !.before = csv.rows,
                              !.pc = IF r.raised THEN "raised" ELSE "pruned"]
    /\ UNCHANGED device
    /\ UNCHANGED <<mock, loop, stored, mem>>

\* a new device (no csv yet), and files of about keep_n_lines rows whose
\* older rows are of every kind and whose latest rows report the relay off
InitPrune ==
    /\ Device0
    /\ NoReplay
    /\ NoLoop
    /\ NoStore
    /\ \E n \in 0..MaxOlder, late \in {0, KeepLines - 1, KeepLines} :
         \E kinds \in KindSeqs(n) :
            csv = [rows |-> FileOf(kinds \o [i \in 1..late |-> "off"]),
                   before |-> << >>, pc |-> "start", logged |-> 0]

NextPrune == LogToCsv \/ PruneFile

SpecPrune == InitPrune /\ [][NextPrune]_vars

-----------------------------------------------------------------------------
(* C22 as stated.  The stored series is append-only: a step of a live tick   *)
(* leaves the rows as they are or appends the polled row; no stored row is    *)
(* removed, changed or moved and none appears that was not polled.            *)
C22_StatedStep ==
    \/ csv'.rows = csv.rows
    \/ /\ Len(csv'.rows) = Len(csv.rows) + 1
       /\ SubSeq(csv'.rows, 1, Len(csv.rows)) = csv.rows

C22_Stated == [][C22_StatedStep]_vars

KeptCount(rows) == IF Len(rows) <= KeepLines THEN Len(rows) ELSE KeepLines
RowSet(rows) == {rows[i] : i \in 1..Len(rows)}
InTimeOrder(rows) == \A i \in 1..(Len(rows) - 1) : rows[i].Time <= rows[i + 1].Time

(* C22.  log_to_csv appends the polled row to the series.  prune_file, run   *)
(* at the end of every live tick, rewrites the series: every row of the       *)
(* result is a row of the series before it, the rows stay in order of time,   *)
(* the first row and the latest keep_n_lines (100) rows are kept as they      *)
(* are, and rows older than those may be removed; the result is never more    *)
(* than one row longer.  A series of no more than 100 rows is left as it is.  *)
C22_Step ==
    /\ csv.pc # "logged" =>
          /\ Len(csv'.rows) = Len(csv.rows) + 1
          /\ SubSeq(csv'.rows, 1, Len(csv.rows)) = csv.rows
    /\ csv.pc = "logged" =>
          /\ RowSet(csv'.rows) \subseteq RowSet(csv.rows)
          /\ InTimeOrder(csv'.rows)
          /\ csv'.rows[1] = csv.rows[1]
          /\ Len(csv'.rows) >= KeptCount(csv.rows)
          /\ Suffix(csv'.rows, KeptCount(csv.rows))
                = Suffix(csv.rows, KeptCount(csv.rows))
          /\ Len(csv'.rows) <= Len(csv.rows) + 1
          /\ Len(csv.rows) <= KeepLines => csv'.rows = csv.rows

C22_SeriesPrunedNotAppendOnly == [][C22_Step]_vars

\* prune_file removed rows that had been stored
C22_Witness ==
    /\ csv.pc = "pruned"
    /\ Len(csv.rows) < Len(csv.before)
    /\ RowSet(csv.rows) # RowSet(csv.before)

-----------------------------------------------------------------------------
\* the window of the tick is neither Starting nor Running and its median is
\* above max_idle_power: check_status falls through (lines 864-865)
FallsThrough ==
    LET p == PowerList(TickWindow)
    IN  /\ ~IsStarting(p, doc)
        /\ ~IsRunning(p, doc)
        /\ Median2(p) > 2 * doc.max_idle_power

(* C23.  A tick classified Ambiguous (its window falls through every rule)  *)
(* changes no field of any record and not re_remind_counter, sends no         *)
(* notification, and saves the document as it was loaded.                     *)
C23_Step ==
    Ticks /\ series # << >> /\ (FallsThrough \/ regime' = "Ambiguous") =>
        /\ FallsThrough
        /\ regime' = "Ambiguous"
        /\ doc' = doc
        /\ outbox' = << >>
        /\ nSent' = nSent
        /\ ~crashed'

C23_AmbiguousChangesNothing == [][C23_Step]_vars

\* an Ambiguous tick on the document of a device that has run
C23_Witness ==
    /\ pc = "evaluated" /\ regime = "Ambiguous"
    /\ FallsThrough
    /\ outbox = << >>
    /\ Running.time > DatetimeMin

-----------------------------------------------------------------------------
(* C24.  Every tick classified Running sets running.time to the latest       *)
(* sample time and re_remind_counter to 0; when on.time is older than both    *)
(* done.time and off.time it also runs print_on, after which on.time is the   *)
(* latest sample time.                                                        *)
C24_Step ==
    Ticks /\ regime' = "Running" =>
        /\ ~crashed'
        /\ doc'.stats["running"].time = TickLatest
        /\ doc'.re_remind_counter = 0
        /\ On.time < Done.time /\ On.time < Off.time =>
              /\ doc'.stats["on"].time = TickLatest
              /\ Sends(outbox', "on") \/ \A t \in TargetSet : Level(doc, "on", t) = 0

C24_RunningTick == [][C24_Step]_vars

\* a Running tick that found the On entry missed and sent the On message:
\* the window holds no sample at or below off_power, so no Starting tick
\* came before it
C24_Witness ==
    /\ pc = "evaluated" /\ regime = "Running"
    /\ Sends(outbox, "on")
    /\ On.time = TickLatest
    /\ Running.time = TickLatest
    /\ doc.re_remind_counter = 0
    /\ On.time > Off.time /\ Off.time > DatetimeMin
    /\ On.time > Done.time /\ Done.time > DatetimeMin

-----------------------------------------------------------------------------
\* the least number of rows the count test lets the loop leave with:
\* count > min_data_window / interval, count being the rows read before
MinCount(mdw) == mdw \div Interval + 2

ShortestSuffix(rows, Enough(_)) ==
    LET ks == {k \in 1..Len(rows) : Enough(k)}
    IN  IF ks = {} THEN Len(rows) ELSE SetMin(ks)

(* C25 as stated.  The window is the shortest suffix of the series whose     *)
(* time span is >= min_data_window and whose count is >= the least count the  *)
(* loop leaves with, or the whole series when there is none.                  *)
C25_Stated ==
    pc = "evaluated" =>
        LET mdw == doc.min_data_window
            Enough(k) == Span(Suffix(series, k)) >= mdw /\ k >= MinCount(mdw)
        IN  Len(TickWindow) = ShortestSuffix(series, Enough)

(* C25.  The window is the shortest suffix of the series whose time span is  *)
(* greater than min_data_window and whose count less one is greater than     *)
(* min_data_window / interval, or the whole series when there is none; it is  *)
(* in chronological order (the rows as stored) and the earliest and latest    *)
(* timestamps are those of exactly its rows.                                  *)
C25_WindowShortestSuffix ==
    pc = "evaluated" =>
        LET mdw == doc.min_data_window
            Enough(k) == Span(Suffix(series, k)) > mdw /\ (k - 1) * Interval > mdw
            n == ShortestSuffix(series, Enough)
        IN  /\ Len(TickWindow) = n
            /\ TickWindow = SubSeq(series, Len(series) - n + 1, Len(series))
            /\ TickEarliest = SetMin(Times(TickWindow))
            /\ TickLatest = SetMax(Times(TickWindow))
            /\ regime = Classify(PowerList(TickWindow), doc)

\* a tick whose shortest suffix with enough rows spans exactly
\* min_data_window: the loop read one row more
C25_Witness ==
    /\ pc = "evaluated"
    /\ doc.min_data_window > 0
    /\ \E k \in 1..(Len(series) - 1) :
          /\ (k - 1) * Interval > doc.min_data_window
          /\ Span(Suffix(series, k)) = doc.min_data_window
          /\ Len(TickWindow) = k + 1

-----------------------------------------------------------------------------
(* C26.  From the default document, a device that is off, then runs above    *)
(* max_idle_power for longer than min_runtime and then stays off, with every  *)
(* delivery acknowledged, eventually gets an On notification and later an     *)
(* Off notification.                                                          *)
C26_FreshRunAnnounced ==
    <>anyFailed \/ <>(nSent["on"] >= 1 /\ <>(nSent["off"] >= 1))

\* the whole scenario was polled and evaluated, the run lasted longer than
\* min_runtime, the device is classified Off, and no message went out
C26_Witness ==
    /\ feed = << >> /\ pc = "evaluated" /\ ~anyFailed
    /\ regime = "Off"
    /\ RunPolls * Interval > doc.min_runtime
    /\ Running.time > DatetimeMin
    /\ nSent["on"] = 0 /\ nSent["off"] = 0
    /\ On.time = DatetimeMin /\ Off.time = DatetimeMin

-----------------------------------------------------------------------------
(* C27.  Every completed run is announced: whenever a tick is classified     *)
(* Running and the device then stays in the Done regime for longer than       *)
(* min_runtime and min_data_window, deliveries acknowledged, a Done message   *)
(* is eventually delivered after that run, also when no Starting or Off tick  *)
(* came between the runs.                                                     *)
C27_RunAnnounced ==
    (pc = "evaluated" /\ regime = "Running")
        ~> (anyFailed \/ Done.last_sent > Running.time)

\* the second run was followed by more than min_runtime of Done ticks,
\* nothing failed, and no Done message went out since the device ran
C27_Witness ==
    /\ feed = << >> /\ pc = "evaluated" /\ ~anyFailed
    /\ regime = "Done"
    /\ TickEarliest - Running.time > doc.min_runtime
    /\ TickEarliest - Running.time > doc.min_data_window
    /\ Running.time > On.time
    /\ Done.last_sent < Running.time
    /\ nSent["done"] = 0

-----------------------------------------------------------------------------
\* the On message of a Starting tick was not acknowledged by every target
OnFailedAtStart ==
    /\ pc = "evaluated" /\ regime = "Starting"
    /\ Sends(outbox, "on") /\ ~AllAcked(outbox)

\* a delivery of a later tick, not classified Starting, failed as well
FailedLater == pc = "evaluated" /\ regime # "Starting" /\ ~AllAcked(outbox)

(* C28.  An On notification whose delivery failed on the Starting tick is    *)
(* eventually delivered (on.last_sent passes on.time) when the deliveries of  *)
(* the later ticks are acknowledged, also when those ticks are classified     *)
(* Running, Off or Done rather than Starting.                                 *)
C28_FailedOnRetried == OnFailedAtStart ~> (On.last_sent >= On.time \/ FailedLater)

\* the start was written (on.time) and its On message was sent once and not
\* delivered; the device has run, idled and been switched off since, no
\* later delivery failed, and the message was not sent again
C28_Witness ==
    /\ feed = << >> /\ pc = "evaluated"
    /\ regime = "Off"
    /\ anyFailed /\ AllAcked(outbox)
    /\ nSent["on"] = 1
    /\ On.time > Off.time
    /\ On.last_sent < On.time
    /\ Running.time > On.time

-----------------------------------------------------------------------------
(* C29.  A load with reset yields a document in which every field that has   *)
(* a default, the nested stats fields (time, last_sent, power_total and the   *)
(* notification levels) included, holds its default value.                    *)
C29_Step ==
    (LoadStep /\ mem'.pc = "loaded" /\ mem'.reset) =>
        \A q \in LeafPaths(DefaultRaw) :
            q \in NodePaths(mem'.config) /\ At(mem'.config, q) = At(DefaultRaw, q)

C29_ResetLoadsDefaults == [][C29_Step]_vars

\* a document loaded with reset: the top-level re_remind is back at its
\* default, the stored running.time and done.last_sent are still there
C29_Witness ==
    /\ mem.pc = "loaded" /\ mem.reset /\ stored.exists
    /\ <<"re_remind">> \in LeafPaths(StoredDocument)
    /\ At(StoredDocument, <<"re_remind">>) # At(DefaultRaw, <<"re_remind">>)
    /\ At(mem.config, <<"re_remind">>) = At(DefaultRaw, <<"re_remind">>)
    /\ <<"stats", "running", "time">> \in LeafPaths(StoredDocument)
    /\ At(mem.config, <<"stats", "running", "time">>).leaf # DatetimeMin
    /\ At(mem.config, <<"stats", "running", "time">>)
          = At(StoredDocument, <<"stats", "running", "time">>)
    /\ <<"stats", "done", "last_sent">> \in LeafPaths(StoredDocument)
    /\ At(mem.config, <<"stats", "done", "last_sent">>).leaf # DatetimeMin

-----------------------------------------------------------------------------
RECURSIVE IsSubseq(_, _)
IsSubseq(a, b) ==
    IF a = << >> THEN TRUE
    ELSE IF b = << >> THEN FALSE
    ELSE IF Head(a) = Head(b) THEN IsSubseq(Tail(a), Tail(b))
    ELSE IsSubseq(a, Tail(b))

\* the rows before the latest k; a sequence that ends with the latest k rows
\* of another is a subsequence of it iff its older rows are one of the
\* other's older rows
Older(rows, k) == SubSeq(rows, 1, Len(rows) - k)

\* row i of rows equals both its neighbours in every interesting key
AlikeNeighbours(rows, i) ==
    /\ 1 < i /\ i < Len(rows)
    /\ \A key \in interesting_keys :
          rows[i - 1][key] = rows[i][key] /\ rows[i][key] = rows[i + 1][key]

(* C30.  For every series of n >= 1 rows prune_file completes and leaves a   *)
(* row sequence that is a subsequence of the original rows (no row added,     *)
(* duplicated or reordered), whose final min(100, n) rows are the original's  *)
(* final min(100, n) rows, and from which a row is removed only if its Power, *)
(* Total, TotalStartTime and power1 equal those of both original neighbours.  *)
C30_Step ==
    (csv.pc = "logged" /\ Len(csv.rows) >= 1) =>
        /\ csv'.pc = "pruned"
        /\ Len(csv'.rows) >= KeptCount(csv.rows)
        /\ Suffix(csv'.rows, KeptCount(csv.rows)) = Suffix(csv.rows, KeptCount(csv.rows))
        /\ IsSubseq(Older(csv'.rows, KeptCount(csv.rows)), Older(csv.rows, KeptCount(csv.rows)))
        /\ \A i \in 1..Len(csv.rows) :
              csv.rows[i] \notin RowSet(csv'.rows) => AlikeNeighbours(csv.rows, i)

C30_PruneKeepsSubsequence == [][C30_Step]_vars

\* prune_file raised on a series of 1..100 rows and left the file as it was
C30_Witness ==
    /\ csv.pc = "raised"
    /\ Len(csv.before) >= 1 /\ Len(csv.before) <= KeepLines
    /\ csv.rows = csv.before

\* prune_file wrote the only row older than the latest 100 twice
C30_RowWrittenTwice ==
    /\ csv.pc = "pruned"
    /\ Len(csv.before) = KeepLines + 1
    /\ Len(csv.rows) = KeepLines + 2
    /\ csv.rows[1] = csv.rows[2]

=============================================================================
